---- MODULE Spec2Model ----
(***************************************************************************)
(* europass-mcp: the resume store of src/mcp_server.py (create_resume,     *)
(* import_cv, update_resume, delete_resume, generate_pdf, list_resumes)    *)
(* and the Europass XML <-> MAC JSON translation (_europass_xml_to_mac,    *)
(* _mac_to_europass_xml) with the helpers they call.                       *)
(*                                                                         *)
(* Text the code inspects (dates, names, language names, photo payloads)   *)
(* is a tuple of one-character strings, so that strip(), lower(),          *)
(* startswith(), slicing, the date regexes and base64 are computed and not *)
(* assumed.  A character outside ASCII is written "Uxxxx".  Text the code  *)
(* only copies (organisation names, titles, score texts) is a TLA+ string. *)
(* A Python dict is a function on its keys; the empty dict is <<>>.        *)
(***************************************************************************)
EXTENDS Integers, Sequences, FiniteSets, TLC

(***************************************************************************)
(* Python built-ins used by the code                                       *)
(***************************************************************************)

\* dict.get(key, default)
Get(d, k, default) == IF k \in DOMAIN d THEN d[k] ELSE default

EmptyDict == <<>>

\* str.strip() strips these
Whitespace == {" ", "\t", "\n", "\r"}

\* what \d matches in a str pattern: the Unicode decimal digits, here the ASCII ones and
\* ARABIC-INDIC DIGIT THREE for the others
Digits == {"0", "1", "2", "3", "4", "5", "6", "7", "8", "9", "U0663"}

LowerOf ==
    "A" :> "a" @@ "B" :> "b" @@ "C" :> "c" @@ "D" :> "d" @@ "E" :> "e" @@ "F" :> "f" @@ "G" :> "g" @@
    "H" :> "h" @@ "I" :> "i" @@ "J" :> "j" @@ "K" :> "k" @@ "L" :> "l" @@ "M" :> "m" @@ "N" :> "n" @@
    "O" :> "o" @@ "P" :> "p" @@ "Q" :> "q" @@ "R" :> "r" @@ "S" :> "s" @@ "T" :> "t" @@ "U" :> "u" @@
    "V" :> "v" @@ "W" :> "w" @@ "X" :> "x" @@ "Y" :> "y" @@ "Z" :> "z"

\* str.lower(), on the ASCII letters
Lower(s) == [i \in DOMAIN s |-> IF s[i] \in DOMAIN LowerOf THEN LowerOf[s[i]] ELSE s[i]]

RECURSIVE LStrip(_)
LStrip(s) == IF s # <<>> /\ Head(s) \in Whitespace THEN LStrip(Tail(s)) ELSE s

RECURSIVE RStrip(_)
RStrip(s) ==
    IF s # <<>> /\ s[Len(s)] \in Whitespace THEN RStrip(SubSeq(s, 1, Len(s) - 1)) ELSE s

\* str.strip()
Strip(s) == RStrip(LStrip(s))

\* s[:n]
Take(s, n) == SubSeq(s, 1, IF Len(s) < n THEN Len(s) ELSE n)

\* str.startswith(p)
StartsWith(s, p) == Len(s) >= Len(p) /\ SubSeq(s, 1, Len(p)) = p

\* sub in s
Contains(s, sub) ==
    \E i \in 0..(Len(s) - Len(sub)) : SubSeq(s, i + 1, i + Len(sub)) = sub

AllDigits(s) == \A i \in DOMAIN s : s[i] \in Digits

\* the printable ASCII characters, code 32 first
Ascii == <<
    " ","!","\"","#","$","%","&","'","(",")","*","+",",","-",".","/",
    "0","1","2","3","4","5","6","7","8","9",":",";","<","=",">","?",
    "@","A","B","C","D","E","F","G","H","I","J","K","L","M","N","O",
    "P","Q","R","S","T","U","V","W","X","Y","Z","[","\\","]","^","_",
    "U0060","a","b","c","d","e","f","g","h","i","j","k","l","m","n","o",
    "p","q","r","s","t","u","v","w","x","y","z","{","|","}","~">>

\* ord(c) of an ASCII character (its UTF-8 byte)
Ord(c) == 31 + (CHOOSE i \in DOMAIN Ascii : Ascii[i] = c)

B64Alphabet == <<
    "A","B","C","D","E","F","G","H","I","J","K","L","M","N","O","P",
    "Q","R","S","T","U","V","W","X","Y","Z","a","b","c","d","e","f",
    "g","h","i","j","k","l","m","n","o","p","q","r","s","t","u","v",
    "w","x","y","z","0","1","2","3","4","5","6","7","8","9","+","/">>

B64Char(n) == B64Alphabet[n + 1]

RECURSIVE B64Bytes(_)
B64Bytes(b) ==
    IF Len(b) = 0 THEN <<>>
    ELSE IF Len(b) = 1 THEN
        << B64Char(b[1] \div 4), B64Char((b[1] % 4) * 16), "=", "=" >>
    ELSE IF Len(b) = 2 THEN
        << B64Char(b[1] \div 4), B64Char((b[1] % 4) * 16 + b[2] \div 16),
           B64Char((b[2] % 16) * 4), "=" >>
    ELSE
        << B64Char(b[1] \div 4), B64Char((b[1] % 4) * 16 + b[2] \div 16),
           B64Char((b[2] % 16) * 4 + b[3] \div 64), B64Char(b[3] % 64) >>
        \o B64Bytes(SubSeq(b, 4, Len(b)))

\* base64.b64encode(s.encode("utf-8")).decode("utf-8")
B64Encode(s) == B64Bytes([i \in DOMAIN s |-> Ord(s[i])])

(***************************************************************************)
(* Code tables and the date normaliser                                     *)
(***************************************************************************)

LanguageMapping ==
    <<"f","r","e","n","c","h">> :> <<"f","r","e">> @@
    <<"f","r","a","n","U00E7","a","i","s">> :> <<"f","r","e">> @@
    <<"f","r","a","n","c","a","i","s">> :> <<"f","r","e">> @@
    <<"f","r","e">> :> <<"f","r","e">> @@
    <<"f","r","a">> :> <<"f","r","e">> @@
    <<"f","r">> :> <<"f","r","e">> @@
    <<"e","n","g","l","i","s","h">> :> <<"e","n","g">> @@
    <<"a","n","g","l","a","i","s">> :> <<"e","n","g">> @@
    <<"e","n","g">> :> <<"e","n","g">> @@
    <<"e","n">> :> <<"e","n","g">> @@
    <<"g","e","r","m","a","n">> :> <<"g","e","r">> @@
    <<"d","e","u","t","s","c","h">> :> <<"g","e","r">> @@
    <<"a","l","l","e","m","a","n","d">> :> <<"g","e","r">> @@
    <<"g","e","r">> :> <<"g","e","r">> @@
    <<"d","e","u">> :> <<"g","e","r">> @@
    <<"d","e">> :> <<"g","e","r">> @@
    <<"s","p","a","n","i","s","h">> :> <<"s","p","a">> @@
    <<"e","s","p","a","U00F1","o","l">> :> <<"s","p","a">> @@
    <<"e","s","p","a","g","n","o","l">> :> <<"s","p","a">> @@
    <<"s","p","a">> :> <<"s","p","a">> @@
    <<"e","s">> :> <<"s","p","a">> @@
    <<"i","t","a","l","i","a","n">> :> <<"i","t","a">> @@
    <<"i","t","a","l","i","a","n","o">> :> <<"i","t","a">> @@
    <<"i","t","a","l","i","e","n">> :> <<"i","t","a">> @@
    <<"i","t","a">> :> <<"i","t","a">> @@
    <<"i","t">> :> <<"i","t","a">> @@
    <<"p","o","r","t","u","g","u","e","s","e">> :> <<"p","o","r">> @@
    <<"p","o","r","t","u","g","u","U00EA","s">> :> <<"p","o","r">> @@
    <<"p","o","r","t","u","g","a","i","s">> :> <<"p","o","r">> @@
    <<"p","o","r">> :> <<"p","o","r">> @@
    <<"p","t">> :> <<"p","o","r">> @@
    <<"d","u","t","c","h">> :> <<"d","u","t">> @@
    <<"n","e","d","e","r","l","a","n","d","s">> :> <<"d","u","t">> @@
    <<"n","U00E9","e","r","l","a","n","d","a","i","s">> :> <<"d","u","t">> @@
    <<"d","u","t">> :> <<"d","u","t">> @@
    <<"n","l","d">> :> <<"d","u","t">> @@
    <<"n","l">> :> <<"d","u","t">> @@
    <<"c","h","i","n","e","s","e">> :> <<"c","h","i">> @@
    <<"U4E2D","U6587">> :> <<"c","h","i">> @@
    <<"c","h","i","n","o","i","s">> :> <<"c","h","i">> @@
    <<"c","h","i">> :> <<"c","h","i">> @@
    <<"z","h","o">> :> <<"c","h","i">> @@
    <<"z","h">> :> <<"c","h","i">> @@
    <<"j","a","p","a","n","e","s","e">> :> <<"j","p","n">> @@
    <<"U65E5","U672C","U8A9E">> :> <<"j","p","n">> @@
    <<"j","a","p","o","n","a","i","s">> :> <<"j","p","n">> @@
    <<"j","p","n">> :> <<"j","p","n">> @@
    <<"j","a">> :> <<"j","p","n">> @@
    <<"r","u","s","s","i","a","n">> :> <<"r","u","s">> @@
    <<"U0440","U0443","U0441","U0441","U043A","U0438","U0439">> :> <<"r","u","s">> @@
    <<"r","u","s","s","e">> :> <<"r","u","s">> @@
    <<"r","u","s">> :> <<"r","u","s">> @@
    <<"r","u">> :> <<"r","u","s">> @@
    <<"a","r","a","b","i","c">> :> <<"a","r","a">> @@
    <<"U0627","U0644","U0639","U0631","U0628","U064A","U0629">> :> <<"a","r","a">> @@
    <<"a","r","a","b","e">> :> <<"a","r","a">> @@
    <<"a","r","a">> :> <<"a","r","a">> @@
    <<"a","r">> :> <<"a","r","a">>

_language_to_iso639b(lang_name) ==
    LET lang_lower == Strip(Lower(lang_name))
    IN  IF lang_lower \in DOMAIN LanguageMapping THEN LanguageMapping[lang_lower]
        ELSE Take(lang_lower, 3)

_level_to_cef(level) ==
    LET level_lower == Lower(level)
    IN  IF Contains(level_lower, <<"n","a","t","i","v","e">>)
           \/ Contains(level_lower, <<"f","u","l","l"," ","p","r","o","f","e","s","s","i","o","n","a","l">>)
        THEN "C2"
        ELSE IF Contains(level_lower, <<"p","r","o","f","e","s","s","i","o","n","a","l">>) THEN "C1"
        ELSE IF Contains(level_lower, <<"l","i","m","i","t","e","d">>)
                \/ Contains(level_lower, <<"i","n","t","e","r","m","e","d","i","a","t","e">>)
        THEN "B2"
        ELSE IF Contains(level_lower, <<"e","l","e","m","e","n","t","a","r","y">>)
                \/ Contains(level_lower, <<"b","a","s","i","c">>)
        THEN "A2"
        ELSE "B1"

\* re.match(r"^\d{4}-\d{2}$") and the other shapes of _validate_date
IsYearSepMonth(s, sep) ==
    Len(s) = 7 /\ AllDigits(SubSeq(s, 1, 4)) /\ s[5] = sep /\ AllDigits(SubSeq(s, 6, 7))

IsYearMonthDay(s) ==
    /\ Len(s) = 10
    /\ AllDigits(SubSeq(s, 1, 4)) /\ s[5] = "-" /\ AllDigits(SubSeq(s, 6, 7))
    /\ s[8] = "-" /\ AllDigits(SubSeq(s, 9, 10))

IsMonthSlashYear(s) ==
    Len(s) = 7 /\ AllDigits(SubSeq(s, 1, 2)) /\ s[3] = "/" /\ AllDigits(SubSeq(s, 4, 7))

IsYear(s) == Len(s) = 4 /\ AllDigits(s)

\* _validate_date without the strip() of line 1828
_validate_date_NoStrip(date_str) ==
    IF IsYearSepMonth(date_str, "-") THEN date_str
    ELSE IF IsYearMonthDay(date_str) THEN Take(date_str, 7)
    ELSE IF IsYearSepMonth(date_str, "/")
         THEN SubSeq(date_str, 1, 4) \o <<"-">> \o SubSeq(date_str, 6, 7)
    ELSE IF IsMonthSlashYear(date_str)
         THEN SubSeq(date_str, 4, 7) \o <<"-">> \o SubSeq(date_str, 1, 2)
    ELSE IF IsYear(date_str) THEN date_str \o <<"-", "0", "1">>
    ELSE <<>>

_validate_date(date_str) ==
    IF date_str = <<>> THEN <<>>
    ELSE LET s == Strip(date_str)
         IN  IF IsYearSepMonth(s, "-") THEN s
             ELSE IF IsYearMonthDay(s) THEN Take(s, 7)
             ELSE IF IsYearSepMonth(s, "/") THEN SubSeq(s, 1, 4) \o <<"-">> \o SubSeq(s, 6, 7)
             ELSE IF IsMonthSlashYear(s) THEN SubSeq(s, 4, 7) \o <<"-">> \o SubSeq(s, 1, 2)
             ELSE IF IsYear(s) THEN s \o <<"-", "0", "1">>
             ELSE <<>>

(***************************************************************************)
(* The Europass XML document, as the element tree the importer reads and   *)
(* the exporter writes:                                                    *)
(*   wellFormed     ElementTree.fromstring accepts the text                *)
(*   looksEuropass  the text contains "europass" or "Candidate"            *)
(*   given, family  CandidatePerson/PersonName/GivenName and FamilyName    *)
(*   employment     EmploymentHistory/EmployerHistory*, each with its      *)
(*                  OrganizationName and PositionHistory*                  *)
(*   education      EducationHistory/EducationOrganizationAttendance*      *)
(*   motherLanguages, foreignLanguages   LanguageSkills/.../LanguageCode   *)
(*   competencies   PersonQualifications/PersonCompetency*                 *)
(*   attachments    CandidateProfile/eures:Attachment*                     *)
(* An element that is absent and an element with no text read the same     *)
(* through get_text ("" both), so both are the empty text here; EndDate of *)
(* a position is the exception (hasEnd): its presence decides the export.  *)
(* Contact data, locations, descriptions and the placeholder sections are  *)
(* not part of this tree.                                                  *)
(***************************************************************************)

s_true == <<"t","r","u","e">>

s_false == <<"f","a","l","s","e">>

s_certif == <<"c","e","r","t","i","f">>

s_safe == <<"s","a","f","e">>

s_Unknown == <<"U","n","k","n","o","w","n">>

NativeLevel == <<"N","a","t","i","v","e"," ","o","r"," ","b","i","l","i","n","g","u","a","l"," ","p","r","o","f","i","c","i","e","n","c","y">>

ProfessionalLevel == <<"P","r","o","f","e","s","s","i","o","n","a","l"," ","w","o","r","k","i","n","g"," ","p","r","o","f","i","c","i","e","n","c","y">>

JpegMagic == <<"/","9","j","/">>

PngMagic == <<"i","V","B","O","R">>

SchemaUrl == "https://raw.githubusercontent.com/getmanfred/mac/v0.5/schema/schema.json"

\* the five dimensions _mac_to_europass_xml writes, in its order
CefrDimensions ==
    << "CEF-Understanding-Listening", "CEF-Understanding-Reading",
       "CEF-Speaking-Interaction", "CEF-Speaking-Production", "CEF-Writing-Production" >>

\* found.text.strip() if found is not None and found.text else default
get_text(text) == IF text # <<>> THEN Strip(text) ELSE <<>>

(***************************************************************************)
(* _europass_xml_to_mac                                                    *)
(***************************************************************************)

\* one PositionHistory -> one role
\* the character references html.unescape resolves, here the three of XML text
HtmlEntities ==
    { [name |-> <<"a","m","p">>, char |-> "&"],
      [name |-> <<"l","t">>, char |-> "<"],
      [name |-> <<"g","t">>, char |-> ">"] }

\* html.unescape(text): one pass, the ";" of a reference is optional
RECURSIVE HtmlUnescape(_)
HtmlUnescape(text) ==
    IF text = <<>> THEN <<>>
    ELSE IF Head(text) = "&" /\ \E e \in HtmlEntities : StartsWith(Tail(text), e.name)
    THEN LET e    == CHOOSE e \in HtmlEntities : StartsWith(Tail(text), e.name)
             rest == SubSeq(text, 2 + Len(e.name), Len(text))
         IN  << e.char >> \o HtmlUnescape(IF rest # <<>> /\ Head(rest) = ";" THEN Tail(rest) ELSE rest)
    ELSE << Head(text) >> \o HtmlUnescape(Tail(text))

unescape_html(text) == IF text = <<>> THEN text ELSE HtmlUnescape(text)

ImportRole(position) ==
    LET start_date  == get_text(position.start)
        end_date    == IF position.hasEnd THEN get_text(position.end) ELSE <<>>
        is_current  == position.current # <<>> /\ Lower(position.current) = s_true
        description == unescape_html(get_text(position.description))
    IN  [name |-> position.title, startDate |-> start_date]
        @@ (IF end_date # <<>> /\ ~is_current THEN [finishDate |-> end_date] ELSE EmptyDict)
        @@ (IF description # <<>>
            THEN [challenges |-> << [description |-> description] >>, notes |-> description]
            ELSE EmptyDict)

\* one EmployerHistory -> one job
ImportJob(employer) ==
    LET roles == [i \in DOMAIN employer.positions |-> ImportRole(employer.positions[i])]
    IN  [organization |-> [name |-> employer.name]]
        @@ (IF roles # <<>> THEN [roles |-> roles] ELSE EmptyDict)

\* one EducationOrganizationAttendance -> one study
ImportStudy(edu) ==
    LET start_date  == get_text(edu.start)
        end_date    == get_text(edu.end)
        ongoing     == edu.ongoing # <<>> /\ Lower(edu.ongoing) = s_true
        degree_name == get_text(edu.degree)
        is_certification ==
            \/ Contains(Lower(degree_name), s_certif)
            \/ Contains(Lower(degree_name), s_safe)
            \/ (start_date = end_date /\ start_date # <<>>)
    IN  [studyType |-> IF is_certification THEN "certification" ELSE "officialDegree",
         degreeAchieved |-> ~ongoing /\ end_date # <<>>,
         name |-> degree_name,
         startDate |-> start_date,
         institution |-> [name |-> edu.name]]
        @@ (IF end_date # <<>> THEN [finishDate |-> end_date] ELSE EmptyDict)

\* LanguageSkills: MotherLanguage and ForeignLanguage entries with a code
RECURSIVE BasicLanguages(_, _)
BasicLanguages(codes, level) ==
    IF codes = <<>> THEN <<>>
    ELSE LET lang_code == get_text(Head(codes))
         IN  (IF lang_code # <<>>
              THEN << [name |-> lang_code, fullName |-> lang_code, level |-> level] >>
              ELSE <<>>)
             \o BasicLanguages(Tail(codes), level)

\* the scores dict of one PersonCompetency: a later dimension overwrites an earlier one
RECURSIVE CefrScoresOf(_)
CefrScoresOf(dims) ==
    IF dims = <<>> THEN EmptyDict
    ELSE LET d    == dims[Len(dims)]
             rest == CefrScoresOf(SubSeq(dims, 1, Len(dims) - 1))
         IN  IF d.code # "" /\ d.score # "" THEN (d.code :> d.score) @@ rest ELSE rest

\* for lang in languages: if name matches: set cefrScores, break; else: append
AttachScores(languages, lang_code, scores) ==
    LET hits == {i \in DOMAIN languages : Lower(languages[i].name) = Lower(lang_code)}
    IN  IF hits # {}
        THEN LET first == CHOOSE i \in hits : \A j \in hits : i <= j
             IN  [languages EXCEPT ![first] = [cefrScores |-> scores] @@ @]
        ELSE Append(languages,
                    [name |-> lang_code, fullName |-> lang_code,
                     level |-> ProfessionalLevel, cefrScores |-> scores])

\* PersonQualifications: only TaxonomyID "language" entries with a CompetencyID text and
\* at least one scored dimension change the languages list
RECURSIVE ImportCompetencies(_, _)
ImportCompetencies(languages, competencies) ==
    IF competencies = <<>> THEN languages
    ELSE LET c      == Head(competencies)
             scores == CefrScoresOf(c.dims)
             next   == IF c.taxonomy = "language" /\ c.id # <<>> /\ scores # EmptyDict
                       THEN AttachScores(languages, Strip(c.id), scores)
                       ELSE languages
         IN  ImportCompetencies(next, Tail(competencies))

\* the first attachment that is a photo and has data
RECURSIVE ImportPicture(_)
ImportPicture(attachments) ==
    IF attachments = <<>> THEN <<>>
    ELSE LET a == Head(attachments)
         IN  IF (a.fileType = "photo" \/ a.instructions = "ProfilePicture")
                /\ get_text(a.data) # <<>>
             THEN get_text(a.data)
             ELSE ImportPicture(Tail(attachments))

\* the record built from a document ElementTree accepts
_europass_xml_to_mac(xml) ==
    LET jobs      == [i \in DOMAIN xml.employment |-> ImportJob(xml.employment[i])]
        studies   == [i \in DOMAIN xml.education |-> ImportStudy(xml.education[i])]
        languages == ImportCompetencies(
                         BasicLanguages(xml.motherLanguages, NativeLevel)
                         \o BasicLanguages(xml.foreignLanguages, ProfessionalLevel),
                         xml.competencies)
        knowledge == (IF studies # <<>> THEN [studies |-> studies] ELSE EmptyDict)
                     @@ (IF languages # <<>> THEN [languages |-> languages] ELSE EmptyDict)
        profile_picture == ImportPicture(xml.attachments)
    IN  ("$schema" :> SchemaUrl)
        @@ [settings |-> [language |-> << "f", "r" >>],
            aboutMe |-> [profile |-> [name |-> get_text(xml.given),
                                      surnames |-> get_text(xml.family)]]]
        @@ (IF jobs # <<>> THEN [experience |-> [jobs |-> jobs]] ELSE EmptyDict)
        @@ (IF knowledge # EmptyDict THEN [knowledge |-> knowledge] ELSE EmptyDict)
        @@ (IF profile_picture # <<>> THEN [profilePicture |-> profile_picture] ELSE EmptyDict)

(***************************************************************************)
(* _mac_to_europass_xml                                                    *)
(***************************************************************************)

\* a variant that closes an open period with the start date, as the education export does
\* re.sub(r'<[^>]+>', '', desc): every "<", one or more characters other than ">", ">"
RECURSIVE StripTags(_)
StripTags(desc) ==
    IF desc = <<>> THEN <<>>
    ELSE IF /\ Head(desc) = "<"
            /\ \E j \in 3..Len(desc) : desc[j] = ">" /\ \A k \in 2..(j - 1) : desc[k] # ">"
    THEN LET j == CHOOSE j \in 3..Len(desc) : desc[j] = ">" /\ \A k \in 2..(j - 1) : desc[k] # ">"
         IN  StripTags(SubSeq(desc, j + 1, Len(desc)))
    ELSE << Head(desc) >> \o StripTags(Tail(desc))

\* "<p>" in desc or "<ol>" in desc or "<ul>" in desc or "<li" in desc
LooksLikeHtml(desc) ==
    \/ Contains(desc, <<"<","p",">">>)
    \/ Contains(desc, <<"<","o","l",">">>)
    \/ Contains(desc, <<"<","u","l",">">>)
    \/ Contains(desc, <<"<","l","i">>)

\* the <li> items of the challenges that have a text once their tags are stripped
RECURSIVE ChallengeItems(_)
ChallengeItems(challenges) ==
    IF challenges = <<>> THEN <<>>
    ELSE LET desc       == Get(Head(challenges), "description", <<>>)
             clean_desc == Strip(StripTags(desc))
         IN  (IF desc # <<>> /\ clean_desc # <<>>
              THEN <<"<","l","i",">">> \o clean_desc \o <<"<","/","l","i",">">>
              ELSE <<>>)
             \o ChallengeItems(Tail(challenges))

_build_html_description(challenges) ==
    IF challenges = <<>> THEN <<>>
    ELSE IF /\ Len(challenges) = 1
            /\ Get(challenges[1], "description", <<>>) # <<>>
            /\ LooksLikeHtml(Get(challenges[1], "description", <<>>))
    THEN Get(challenges[1], "description", <<>>)
    ELSE IF ChallengeItems(challenges) # <<>>
    THEN <<"<","u","l",">">> \o ChallengeItems(challenges) \o <<"<","/","u","l",">">>
    ELSE <<>>

\* a variant that merges the list of the challenges into the description
RoleDescription_Merged(role) ==
    Get(role, "fullDescription", <<>>) \o Get(role, "notes", <<>>)
    \o _build_html_description(Get(role, "challenges", <<>>))

\* the text of oa:Description: fullDescription, then notes, then the challenges
RoleDescription(role) ==
    IF Get(role, "fullDescription", <<>>) # <<>> THEN role.fullDescription
    ELSE IF Get(role, "notes", <<>>) # <<>> THEN role.notes
    ELSE _build_html_description(Get(role, "challenges", <<>>))

ExportPosition_PlaceholderEnd(role) ==
    LET start_date  == _validate_date(Get(role, "startDate", <<>>))
        finish_date == _validate_date(Get(role, "finishDate", <<>>))
        is_current  == finish_date = <<>>
    IN  [title   |-> Get(role, "name", ""),
         start   |-> start_date,
         hasEnd  |-> TRUE,
         end     |-> IF finish_date # <<>> THEN finish_date ELSE start_date,
         current |-> IF is_current THEN s_true ELSE s_false,
         description |-> RoleDescription(role)]

\* the EmploymentPeriod of one exported role
ExportPosition(role) ==
    LET start_date  == _validate_date(Get(role, "startDate", <<>>))
        finish_date == _validate_date(Get(role, "finishDate", <<>>))
        is_current  == finish_date = <<>>
    IN  [title   |-> Get(role, "name", ""),
         start   |-> start_date,
         hasEnd  |-> finish_date # <<>>,
         end     |-> finish_date,
         current |-> IF is_current THEN s_true ELSE s_false,
         description |-> RoleDescription(role)]

\* for role in job.get("roles", []): one EmployerHistory with one PositionHistory each
ExportJob(job) ==
    LET org_name == Get(Get(job, "organization", EmptyDict), "name", "")
        roles    == Get(job, "roles", <<>>)
    IN  [i \in DOMAIN roles |->
            [name |-> org_name, positions |-> << ExportPosition(roles[i]) >>]]

RECURSIVE ExportJobs(_)
ExportJobs(jobs) ==
    IF jobs = <<>> THEN <<>> ELSE ExportJob(Head(jobs)) \o ExportJobs(Tail(jobs))

\* one study -> one EducationOrganizationAttendance; EndDate is always written
ExportStudy(study) ==
    LET start_date  == _validate_date(Get(study, "startDate", <<>>))
        finish_date == _validate_date(Get(study, "finishDate", <<>>))
    IN  [name    |-> Get(Get(study, "institution", EmptyDict), "name", ""),
         start   |-> start_date,
         end     |-> IF finish_date # <<>> THEN finish_date ELSE start_date,
         ongoing |-> IF finish_date = <<>> THEN s_true ELSE s_false,
         degree  |-> Get(study, "name", <<>>)]

\* one language -> one PersonCompetency with the five dimensions
ExportLanguage(lang) ==
    LET lang_code     == _language_to_iso639b(Lower(Get(lang, "name", <<>>)))
        default_level == _level_to_cef(Get(lang, "level", <<>>))
        cefr_scores   == Get(lang, "cefrScores", EmptyDict)
    IN  [taxonomy |-> "language",
         schemeName |-> "NORMAL",
         id       |-> lang_code,
         dims     |-> [i \in DOMAIN CefrDimensions |->
                          [code  |-> CefrDimensions[i],
                           score |-> Get(cefr_scores, CefrDimensions[i], default_level)]]]

\* the EmbeddedData payload: raw JPEG or PNG base64 is wrapped in a data URI and encoded
\* again, anything else is written as it is
ExportPicture(profile_picture) ==
    IF StartsWith(profile_picture, JpegMagic) \/ StartsWith(profile_picture, PngMagic)
    THEN LET img_type == IF StartsWith(profile_picture, JpegMagic)
                         THEN <<"j","p","e","g">> ELSE <<"p","n","g">>
         IN  B64Encode(<<"d","a","t","a",":","i","m","a","g","e","/">> \o img_type
                       \o <<";","b","a","s","e","6","4",",">> \o profile_picture)
    ELSE profile_picture

\* text written without escape(): a "<" or "&" in it breaks the document
BreaksXml(text) == \E i \in DOMAIN text : text[i] \in {"<", "&"}

LevelMap ==
    << "e", "x", "p", "e", "r", "t" >> :> "5" @@ << "h", "i", "g", "h" >> :> "4" @@
    << "m", "e", "d", "i", "u", "m" >> :> "3" @@ << "l", "o", "w" >> :> "2" @@
    << "b", "a", "s", "i", "c" >> :> "1"

\* the PersonCompetency blocks of one list of skills; escape() keeps the text of a name
RECURSIVE SkillBlocks(_, _)
SkillBlocks(skills, hard) ==
    IF skills = <<>> THEN <<>>
    ELSE LET skill_name  == Get(Get(Head(skills), "skill", EmptyDict), "name", <<>>)
             skill_level == Get(Head(skills), "level", <<>>)
         IN  (IF skill_name = <<>> THEN <<>>
              ELSE << [taxonomy   |-> IF hard THEN "hard-skill" ELSE "soft-skill",
                       schemeName |-> IF hard THEN "HARDSKILL" ELSE "SOFTSKILL",
                       id         |-> skill_name,
                       dims       |-> IF hard /\ skill_level # <<>>
                                      THEN << [code  |-> "Proficiency",
                                               score |-> Get(LevelMap, Lower(skill_level), "3")] >>
                                      ELSE <<>>] >>)
             \o SkillBlocks(Tail(skills), hard)

\* _add_skills_to_xml: the blocks it appends to xml_parts
_add_skills_to_xml(knowledge) ==
    SkillBlocks(Get(knowledge, "hardSkills", <<>>), TRUE)
    \o SkillBlocks(Get(knowledge, "softSkills", <<>>), FALSE)

\* PersonQualifications with the call of _add_skills_to_xml in place
PersonCompetencies_WithSkills(knowledge) ==
    LET languages == Get(knowledge, "languages", <<>>)
    IN  IF languages # <<>>
        THEN [i \in DOMAIN languages |-> ExportLanguage(languages[i])]
             \o _add_skills_to_xml(knowledge)
        ELSE _add_skills_to_xml(knowledge)

\* the PersonCompetency blocks of PersonQualifications: one for each language (the
\* calls of _add_skills_to_xml are commented out)
PersonCompetencies(knowledge) ==
    LET languages == Get(knowledge, "languages", <<>>)
    IN  [i \in DOMAIN languages |-> ExportLanguage(languages[i])]

(***************************************************************************)
(* The code tables of the exporter and the part of _mac_to_europass_xml    *)
(* that uses them                                                          *)
(***************************************************************************)
CountryMapping ==
    << "f", "r", "a", "n", "c", "e" >> :> << "f", "r" >> @@
    << "u", "n", "i", "t", "e", "d", " ", "s", "t", "a", "t", "e", "s" >> :> << "u", "s" >> @@
    << "u", "n", "i", "t", "e", "d", " ", "s", "t", "a", "t", "e", "s", " ", "o", "f", " ", "a", "m", "e", "r", "i", "c", "a" >> :> << "u", "s" >> @@
    << "u", "s", "a" >> :> << "u", "s" >> @@
    << "u", "n", "i", "t", "e", "d", " ", "k", "i", "n", "g", "d", "o", "m" >> :> << "g", "b" >> @@
    << "u", "k" >> :> << "g", "b" >> @@
    << "g", "r", "e", "a", "t", " ", "b", "r", "i", "t", "a", "i", "n" >> :> << "g", "b" >> @@
    << "g", "e", "r", "m", "a", "n", "y" >> :> << "d", "e" >> @@
    << "d", "e", "u", "t", "s", "c", "h", "l", "a", "n", "d" >> :> << "d", "e" >> @@
    << "s", "p", "a", "i", "n" >> :> << "e", "s" >> @@
    << "e", "s", "p", "a", "U00F1", "a" >> :> << "e", "s" >> @@
    << "i", "t", "a", "l", "y" >> :> << "i", "t" >> @@
    << "i", "t", "a", "l", "i", "a" >> :> << "i", "t" >> @@
    << "b", "e", "l", "g", "i", "u", "m" >> :> << "b", "e" >> @@
    << "b", "e", "l", "g", "i", "q", "u", "e" >> :> << "b", "e" >> @@
    << "n", "e", "t", "h", "e", "r", "l", "a", "n", "d", "s" >> :> << "n", "l" >> @@
    << "p", "a", "y", "s", "-", "b", "a", "s" >> :> << "n", "l" >> @@
    << "s", "w", "i", "t", "z", "e", "r", "l", "a", "n", "d" >> :> << "c", "h" >> @@
    << "s", "u", "i", "s", "s", "e" >> :> << "c", "h" >> @@
    << "p", "o", "r", "t", "u", "g", "a", "l" >> :> << "p", "t" >> @@
    << "a", "u", "s", "t", "r", "i", "a" >> :> << "a", "t" >> @@
    << "p", "o", "l", "a", "n", "d" >> :> << "p", "l" >> @@
    << "i", "r", "e", "l", "a", "n", "d" >> :> << "i", "e" >> @@
    << "s", "w", "e", "d", "e", "n" >> :> << "s", "e" >> @@
    << "n", "o", "r", "w", "a", "y" >> :> << "n", "o" >> @@
    << "d", "e", "n", "m", "a", "r", "k" >> :> << "d", "k" >> @@
    << "f", "i", "n", "l", "a", "n", "d" >> :> << "f", "i" >> @@
    << "g", "r", "e", "e", "c", "e" >> :> << "g", "r" >> @@
    << "c", "z", "e", "c", "h", " ", "r", "e", "p", "u", "b", "l", "i", "c" >> :> << "c", "z" >> @@
    << "c", "z", "e", "c", "h", "i", "a" >> :> << "c", "z" >> @@
    << "h", "u", "n", "g", "a", "r", "y" >> :> << "h", "u" >> @@
    << "r", "o", "m", "a", "n", "i", "a" >> :> << "r", "o" >> @@
    << "b", "u", "l", "g", "a", "r", "i", "a" >> :> << "b", "g" >> @@
    << "c", "r", "o", "a", "t", "i", "a" >> :> << "h", "r" >> @@
    << "s", "l", "o", "v", "a", "k", "i", "a" >> :> << "s", "k" >> @@
    << "s", "l", "o", "v", "e", "n", "i", "a" >> :> << "s", "i" >> @@
    << "l", "u", "x", "e", "m", "b", "o", "u", "r", "g" >> :> << "l", "u" >> @@
    << "c", "a", "n", "a", "d", "a" >> :> << "c", "a" >> @@
    << "a", "u", "s", "t", "r", "a", "l", "i", "a" >> :> << "a", "u" >> @@
    << "j", "a", "p", "a", "n" >> :> << "j", "p" >> @@
    << "c", "h", "i", "n", "a" >> :> << "c", "n" >> @@
    << "i", "n", "d", "i", "a" >> :> << "i", "n" >> @@
    << "b", "r", "a", "z", "i", "l" >> :> << "b", "r" >> @@
    << "m", "e", "x", "i", "c", "o" >> :> << "m", "x" >>

\* _country_to_code
_country_to_code(country) ==
    IF country = <<>> THEN <<>>
    ELSE LET country_lower == Strip(Lower(country))
         IN  IF Len(country_lower) = 2 THEN country_lower
             ELSE IF country_lower \in DOMAIN CountryMapping THEN CountryMapping[country_lower]
             ELSE <<>>

DialingMapping ==
    << "1" >> :> << "u", "s" >> @@
    << "3", "3" >> :> << "f", "r" >> @@
    << "4", "4" >> :> << "g", "b" >> @@
    << "4", "9" >> :> << "d", "e" >> @@
    << "3", "4" >> :> << "e", "s" >> @@
    << "3", "9" >> :> << "i", "t" >> @@
    << "3", "2" >> :> << "b", "e" >> @@
    << "3", "1" >> :> << "n", "l" >> @@
    << "4", "1" >> :> << "c", "h" >> @@
    << "3", "5", "1" >> :> << "p", "t" >> @@
    << "4", "3" >> :> << "a", "t" >> @@
    << "4", "8" >> :> << "p", "l" >> @@
    << "3", "5", "3" >> :> << "i", "e" >> @@
    << "4", "6" >> :> << "s", "e" >> @@
    << "4", "7" >> :> << "n", "o" >> @@
    << "4", "5" >> :> << "d", "k" >> @@
    << "3", "5", "8" >> :> << "f", "i" >> @@
    << "3", "0" >> :> << "g", "r" >> @@
    << "4", "2", "0" >> :> << "c", "z" >> @@
    << "3", "6" >> :> << "h", "u" >> @@
    << "4", "0" >> :> << "r", "o" >> @@
    << "3", "5", "9" >> :> << "b", "g" >> @@
    << "3", "8", "5" >> :> << "h", "r" >> @@
    << "4", "2", "1" >> :> << "s", "k" >> @@
    << "3", "8", "6" >> :> << "s", "i" >> @@
    << "3", "5", "2" >> :> << "l", "u" >> @@
    << "6", "1" >> :> << "a", "u" >> @@
    << "8", "1" >> :> << "j", "p" >> @@
    << "8", "6" >> :> << "c", "n" >> @@
    << "9", "1" >> :> << "i", "n" >> @@
    << "5", "5" >> :> << "b", "r" >> @@
    << "5", "2" >> :> << "m", "x" >>

\* _phone_country_to_iso
_phone_country_to_iso(country_dialing) ==
    IF country_dialing \in DOMAIN DialingMapping THEN DialingMapping[country_dialing] ELSE <<>>

\* str.lstrip("+")
RECURSIVE LStripPlus(_)
LStripPlus(s) == IF s # <<>> /\ Head(s) = "+" THEN LStripPlus(Tail(s)) ELSE s

PrimaryLanguageMapping ==
    << "f", "r" >> :> << "f", "r", "e" >> @@
    << "f", "r", "a" >> :> << "f", "r", "e" >> @@
    << "f", "r", "e" >> :> << "f", "r", "e" >> @@
    << "e", "n" >> :> << "e", "n", "g" >> @@
    << "e", "n", "g" >> :> << "e", "n", "g" >> @@
    << "d", "e" >> :> << "d", "e", "u" >> @@
    << "d", "e", "u" >> :> << "d", "e", "u" >> @@
    << "g", "e", "r" >> :> << "d", "e", "u" >> @@
    << "e", "s" >> :> << "s", "p", "a" >> @@
    << "s", "p", "a" >> :> << "s", "p", "a" >> @@
    << "i", "t" >> :> << "i", "t", "a" >> @@
    << "i", "t", "a" >> :> << "i", "t", "a" >> @@
    << "p", "t" >> :> << "p", "o", "r" >> @@
    << "p", "o", "r" >> :> << "p", "o", "r" >> @@
    << "n", "l" >> :> << "n", "l", "d" >> @@
    << "n", "l", "d" >> :> << "n", "l", "d" >> @@
    << "d", "u", "t" >> :> << "n", "l", "d" >>

\* the Communication, NationalityCode and PrimaryLanguageCode elements of
\* CandidatePerson that carry a code; a phone number is given as a dict
ExportPerson(mac) ==
    LET profile   == Get(Get(mac, "aboutMe", EmptyDict), "profile", EmptyDict)
        contact   == Get(Get(mac, "careerPreferences", EmptyDict), "contact", EmptyDict)
        knowledge == Get(mac, "knowledge", EmptyDict)
        settings  == Get(mac, "settings", EmptyDict)
        location  == Get(profile, "location", EmptyDict)
        phones    == Get(contact, "phoneNumbers", <<>>)
        languages == Get(knowledge, "languages", <<>>)
        lang_code == Lower(Get(settings, "language", << "E", "N" >>))
        country_code == LStripPlus(Get(phones[1], "countryCode", <<>>))
        first_lang   == Take(Lower(Get(languages[1], "name", <<>>)), 3)
    IN  [phone |-> IF phones # <<>>
                   THEN << [countryDialing |-> country_code,
                            dialNumber     |-> Get(phones[1], "number", <<>>),
                            countryCode    |-> _phone_country_to_iso(country_code)] >>
                   ELSE <<>>,
         address |-> IF DOMAIN location # {}
                     THEN << [countryCode |-> _country_to_code(Get(location, "country", <<>>))] >>
                     ELSE <<>>,
         nationality |-> _country_to_code(Get(location, "country", <<>>)),
         primaryLanguage |->
             IF languages # <<>>
             THEN IF first_lang \in DOMAIN PrimaryLanguageMapping
                  THEN PrimaryLanguageMapping[first_lang] ELSE first_lang
             ELSE IF lang_code = << "e", "n" >> THEN << "e", "n", "g" >>
             ELSE IF lang_code = << "f", "r" >> THEN << "f", "r", "e" >>
             ELSE lang_code]

_mac_to_europass_xml(mac) ==
    LET profile    == Get(Get(mac, "aboutMe", EmptyDict), "profile", EmptyDict)
        experience == Get(mac, "experience", EmptyDict)
        knowledge  == Get(mac, "knowledge", EmptyDict)
        picture    == ExportPicture(Get(mac, "profilePicture", <<>>))
        jobs       == Get(experience, "jobs", <<>>)
        studies    == Get(knowledge, "studies", <<>>)
        languages  == Get(knowledge, "languages", <<>>)
        competencies == PersonCompetencies(knowledge)
        person     == ExportPerson(mac)
    IN  [wellFormed    |-> ~BreaksXml(picture)
                           /\ (\A i \in DOMAIN competencies : ~BreaksXml(competencies[i].id))
                           /\ ~BreaksXml(person.nationality)
                           /\ ~BreaksXml(person.primaryLanguage),
         person        |-> person,
         looksEuropass |-> TRUE,
         given         |-> Get(profile, "name", <<>>),
         family        |-> Get(profile, "surnames", <<>>),
         employment    |-> ExportJobs(jobs),
         education     |-> [i \in DOMAIN studies |-> ExportStudy(studies[i])],
         motherLanguages  |-> <<>>,
         foreignLanguages |-> <<>>,
         personQualifications |-> languages # <<>>,
         competencies  |-> competencies,
         attachments   |-> IF picture # <<>>
                           THEN << [data |-> picture, fileType |-> "photo",
                                    instructions |-> "ProfilePicture"] >>
                           ELSE <<>>]

(***************************************************************************)
(* Bounds and inputs of the translation                                    *)
(***************************************************************************)

MaxPositions == 2

MaxEmployers == 1

MaxStudies == 1

MaxCompetencies == 1

\* the sequences over S of length at most n
RECURSIVE BSeq(_, _)
BSeq(S, n) ==
    IF n = 0 THEN {<<>>}
    ELSE LET shorter == BSeq(S, n - 1)
         IN  shorter \cup {Append(q, x) : q \in {r \in shorter : Len(r) = n - 1}, x \in S}

\* PositionHistory inputs: a past position, a current one, one whose end date has no
\* recognised shape
PositionInputs ==
    { [title |-> "Developer", start |-> <<"2","0","2","0","-","0","1">>, hasEnd |-> TRUE,
       end |-> <<"2","0","2","1","-","0","6">>, current |-> s_false, description |-> <<>>],
      [title |-> "Lead", start |-> <<"2","0","2","2","-","0","3">>, hasEnd |-> FALSE,
       end |-> <<>>, current |-> s_true, description |-> <<>>],
      [title |-> "Intern", start |-> <<"2","0","1","9">>, hasEnd |-> TRUE,
       end |-> <<"n","/","a">>, current |-> s_false, description |-> <<>>] }

\* texts of oa:Description: rich text, plain text, blank, text with a character reference
DescriptionInputs ==
    { <<"<","p",">","L","e","d"," ","t","e","a","m","<","/","p",">">>,
      <<"B","u","i","l","t"," ","A","P","I">>,
      << " " >>,
      <<"a"," ","&","l","t",";"," ","b">> }

\* a PositionHistory with a description
DescribedPositions ==
    { [title |-> "Architect", start |-> <<"2","0","2","0","-","0","1">>, hasEnd |-> FALSE,
       end |-> <<>>, current |-> s_true, description |-> d] : d \in DescriptionInputs }

EmployerInputs ==
    { [name |-> "Acme", positions |-> ps] : ps \in BSeq(PositionInputs, MaxPositions) }
    \cup { [name |-> "Acme", positions |-> << p >>] : p \in DescribedPositions }

\* EducationOrganizationAttendance inputs: a finished degree, an open one, a certification
StudyInputs ==
    { [name |-> "MIT", start |-> <<"2","0","1","0","-","0","9">>, end |-> <<"2","0","1","2","-","0","6">>,
       ongoing |-> s_false, degree |-> <<"M","S","c">>],
      [name |-> "ETH", start |-> <<"2","0","2","3","-","0","9">>, end |-> <<>>,
       ongoing |-> s_true, degree |-> <<"P","h","D">>],
      [name |-> "Scaled Agile", start |-> <<"2","0","2","3","-","1","1">>, end |-> <<"2","0","2","3","-","1","1">>,
       ongoing |-> s_false, degree |-> <<"S","A","F","e"," ","6">>],
      [name |-> "ISTQB", start |-> <<"2","0","2","0","-","0","1">>, end |-> <<"2","0","2","0","-","0","3">>,
       ongoing |-> s_false, degree |-> <<"C","e","r","t","i","f","i","e","d"," ","T","e","s","t","e","r">>],
      [name |-> "Bootcamp", start |-> <<"2","0","2","3","-","1","1","-","0","1">>,
       end |-> <<"2","0","2","3","-","1","1","-","3","0">>,
       ongoing |-> s_false, degree |-> <<"W","o","r","k","s","h","o","p">>],
      [name |-> "Evening school", start |-> <<"n","/","a">>, end |-> <<"n","/","a">>,
       ongoing |-> s_false, degree |-> <<"D","i","p","l","o","m","a">>] }

FullDims(score) ==
    [i \in DOMAIN CefrDimensions |-> [code |-> CefrDimensions[i], score |-> score]]

\* PersonCompetency inputs: all five dimensions, one dimension only, a second name of a
\* language already listed, a competency that is no language
CompetencyInputs ==
    { [taxonomy |-> "language", id |-> <<"e","n","g">>,
       dims |-> [FullDims("C1") EXCEPT ![5] = [code |-> CefrDimensions[5], score |-> "B2"]]],
      [taxonomy |-> "language", id |-> <<"g","e","r">>,
       dims |-> << [code |-> CefrDimensions[1], score |-> "A2"] >>],
      [taxonomy |-> "language", id |-> <<"f","r">>, dims |-> FullDims("B1")],
      [taxonomy |-> "hard-skill", id |-> <<"p","y","t","h","o","n">>,
       dims |-> << [code |-> "Proficiency", score |-> "5"] >>] }

\* base64 of eight image bytes, and the payload Europass holds for it:
\* base64("data:image/jpeg;base64," + that)
RawJpegPayload == <<"/","9","j","/","4","A","A","Q">>

EuropassJpegPayload ==
    <<"Z","G","F","0","Y","T","p","p","b","W","F","n","Z","S","9","q","c","G","V","n","O","2","J","h","c","2","U","2","N","C","w","v","O","W","o","v","N","E","F","B","U","Q","=","=">>

AttachmentInputs ==
    { <<>>,
      << [data |-> EuropassJpegPayload, fileType |-> "photo", instructions |-> ""] >>,
      << [data |-> RawJpegPayload, fileType |-> "", instructions |-> "ProfilePicture"] >> }

MkXml(employment, education, mother, competencies, attachments) ==
    [wellFormed |-> TRUE, looksEuropass |-> TRUE,
     given |-> <<"A","d","a">>, family |-> <<"L","o","v","e","l","a","c","e">>,
     employment |-> employment, education |-> education,
     motherLanguages |-> mother, foreignLanguages |-> <<>>,
     competencies |-> competencies, attachments |-> attachments]

\* a text ElementTree rejects
MalformedXml == [MkXml(<<>>, <<>>, <<>>, <<>>, <<>>) EXCEPT !.wellFormed = FALSE]

\* the sections are translated independently of each other, so one section varies at a
\* time; the languages and the photo vary together
XmlInputs ==
    { MkXml(e, <<>>, <<>>, <<>>, <<>>) : e \in BSeq(EmployerInputs, MaxEmployers) }
    \cup
    { MkXml(<<>>, s, <<>>, <<>>, <<>>) : s \in BSeq(StudyInputs, MaxStudies) }
    \cup
    { MkXml(<<>>, <<>>, m, c, a) :
        m \in {<<>>, << <<"f","r","e">> >>},
        c \in BSeq(CompetencyInputs, MaxCompetencies),
        a \in AttachmentInputs }
    \cup {MalformedXml}

\* roles of an authored record (create_resume): dates as a client may write them
RoleInputs ==
    { [name |-> "Developer", startDate |-> <<"2","0","2","0","-","0","1">>,
       finishDate |-> <<"2","0","2","1","-","0","6","-","3","0">>],
      [name |-> "Lead", startDate |-> <<"2","0","2","2","/","0","3">>],
      [name |-> "Intern", startDate |-> <<"2","0","1","9">>,
       finishDate |-> <<"J","u","n","e"," ","2","0","1","9">>],
      [name |-> "Advisor", startDate |-> <<"2","0","2","1","-","0","1">>, finishDate |-> <<>>] }

s_LedTeamHtml == <<"<","p",">","L","e","d"," ","t","e","a","m","<","/","p",">">>

s_ShortBullet == <<"S","h","o","r","t"," ","b","u","l","l","e","t">>

\* roles of an authored record with a description: the rich text with a challenge, notes
\* that repeat the challenge, an empty fullDescription, both blobs, challenges only (plain
\* ones with tags, a single one that is HTML, ones without text, none)
DescribedRoles ==
    { [name |-> "Engineer", startDate |-> <<"2","0","2","2","-","0","1">>] @@ d :
        d \in { [fullDescription |-> s_LedTeamHtml,
                 challenges |-> << [description |-> s_ShortBullet] >>],
                [notes |-> s_LedTeamHtml,
                 challenges |-> << [description |-> <<"L","e","d"," ","t","e","a","m">>] >>],
                [fullDescription |-> <<>>, notes |-> <<"K","e","p","t"," ","n","o","t","e","s">>,
                 challenges |-> << [description |-> s_ShortBullet] >>],
                [fullDescription |-> s_LedTeamHtml, notes |-> <<"K","e","p","t"," ","n","o","t","e","s">>],
                [challenges |-> << [description |-> <<" ","B","u","i","l","t"," ","<","b",">","A","P","I","<","/","b",">"," ">>],
                                   [description |-> s_ShortBullet] >>],
                [challenges |-> << [description |-> <<"<","l","i",">","B","u","i","l","t"," ","A","P","I","<","/","l","i",">">>] >>],
                [challenges |-> << [description |-> s_ShortBullet] >>],
                [challenges |-> << [description |-> <<"<","b","r",">">>], [title |-> "none"] >>],
                [challenges |-> <<>>] } }

MkMac(name, surnames) == [aboutMe |-> [profile |-> [name |-> name, surnames |-> surnames]]]

\* base64 of the first six bytes of a PNG and of a GIF image
RawPngPayload == <<"i","V","B","O","R","w","0","K">>

RawGifPayload == <<"R","0","l","G","O","D","l","h">>

\* profilePicture of an authored record: base64 of the image bytes
PhotoInputs == {RawJpegPayload, RawPngPayload, RawGifPayload}

\* knowledge of an authored record with hard and soft skills, with and without a language
SkillInputs ==
    LET hard == << [skill |-> [name |-> << "P", "y", "t", "h", "o", "n" >>],
                    level |-> << "e", "x", "p", "e", "r", "t" >>],
                   [skill |-> [name |-> <<>>], level |-> <<>>] >>
        soft == << [skill |-> [name |-> << "L", "e", "a", "d" >>]] >>
        lang == << [name |-> << "F", "r", "e", "n", "c", "h" >>,
                    level |-> << "N", "a", "t", "i", "v", "e" >>] >>
    IN  { [hardSkills |-> hard, softSkills |-> soft],
          [hardSkills |-> hard, softSkills |-> soft, languages |-> lang],
          [softSkills |-> soft, languages |-> lang] }

AuthoredMacs ==
    { MkMac(<<"A","d","a">>, <<"L","o","v","e","l","a","c","e">>)
      @@ [experience |-> [jobs |-> << [organization |-> [name |-> "Acme"], roles |-> rs] >>]] :
        rs \in BSeq(RoleInputs, MaxPositions) \cup { << r >> : r \in DescribedRoles } }
    \cup
    { MkMac(<<"A","d","a">>, <<"L","o","v","e","l","a","c","e">>) @@ [profilePicture |-> p] :
        p \in PhotoInputs }
    \cup
    { MkMac(<<"A","d","a">>, <<"L","o","v","e","l","a","c","e">>) @@ [knowledge |-> k] :
        k \in SkillInputs }

(***************************************************************************)
(* The resume store                                                        *)
(***************************************************************************)

VARIABLES
    _resumes,           \* dict id -> MAC record, as the sequence of its items in insertion order
    _raw_europass_xml,  \* dict id -> imported XML document
    nextId,             \* str(uuid4())[:8] is modelled as an id never issued before
    xml_file,           \* the file at xml_path: <<>> when absent, <<document>> otherwise
    last,               \* the last tool call and what it returned
    calls,              \* tool calls counted against the bound of the specification
    rt_pc,              \* translation run: "start", "imported", "authored", "exported", ...
    rt_src,             \* the record of the run came from "import" or from "author"
    rt_xml,             \* the document given to the importer
    rt_mac,             \* the record that is exported
    rt_out,             \* _mac_to_europass_xml(rt_mac)
    rt_mac2,            \* _europass_xml_to_mac(rt_out)
    fn_pc,              \* a call of a function: "input", then "done"; the await a coroutine is at
    fn_in,              \* its argument; what each generate_pdf call wrote
    fn_arg,             \* its second argument (max_indent), 0 when it has none
    fn_out,             \* its result; what each coroutine returned
    fn_out2             \* the result of applying it to its own result; attempts made; what each call uploaded

store_vars == << _resumes, _raw_europass_xml, nextId, xml_file, last, calls >>

rt_vars == << rt_pc, rt_src, rt_xml, rt_mac, rt_out, rt_mac2 >>

fn_vars == << fn_pc, fn_in, fn_arg, fn_out, fn_out2 >>

vars == << _resumes, _raw_europass_xml, nextId, xml_file, last, calls,
           rt_pc, rt_src, rt_xml, rt_mac, rt_out, rt_mac2,
           fn_pc, fn_in, fn_arg, fn_out, fn_out2 >>

_MAX_RESUMES == 50

VALID_TEMPLATES ==
    {"cv-formal", "cv-elegant", "cv-modern", "cv-academic", "cv-creative", "cv-semi-formal"}

\* the top-level keys of a MAC record whose values are dicts (isinstance(value, dict))
DictKeys == {"settings", "aboutMe", "experience", "knowledge", "careerPreferences"}

ResidentIds == {_resumes[i].id : i \in DOMAIN _resumes}

\* _resumes[resume_id]
Resume(resume_id) ==
    (CHOOSE i \in DOMAIN _resumes : _resumes[i].id = resume_id)

MacOf(store, resume_id) ==
    store[CHOOSE i \in DOMAIN store : store[i].id = resume_id].mac

\* del d[key] on a dict kept as a sequence of items
RECURSIVE DelItem(_, _)
DelItem(store, resume_id) ==
    IF store = <<>> THEN <<>>
    ELSE IF Head(store).id = resume_id THEN Tail(store)
    ELSE << Head(store) >> \o DelItem(Tail(store), resume_id)

\* del d[key] on a dict kept as a function
DelKey(d, k) == [x \in DOMAIN d \ {k} |-> d[x]]

\* what the model keeps of a call: the tool, the status it returned, the resume_id it
\* returned or was given, the document generate_pdf wrote, the mode or source_type of the
\* result, and the mac_json argument
Result(op, status, resume_id, written, source_type, arg) ==
    [op |-> op, status |-> status, resume_id |-> resume_id,
     written |-> written, source_type |-> source_type, arg |-> arg]

ProfileOf(mac) == Get(Get(mac, "aboutMe", EmptyDict), "profile", EmptyDict)

\* a variant that evicts only above the capacity (> for >=)
create_resume_EvictsAboveCapacity(mac_json) ==
    LET name     == Strip(Get(ProfileOf(mac_json), "name", <<>>))
        surnames == Strip(Get(ProfileOf(mac_json), "surnames", <<>>))
    IN  IF name = <<>> \/ surnames = <<>>
        THEN /\ last' = Result("create_resume", "error", 0, <<>>, "", mac_json)
             /\ UNCHANGED << _resumes, _raw_europass_xml, nextId, xml_file >>
        ELSE LET kept == IF Len(_resumes) > _MAX_RESUMES THEN Tail(_resumes) ELSE _resumes
             IN  /\ _resumes' = Append(kept, [id |-> nextId, mac |-> mac_json])
                 /\ nextId' = nextId + 1
                 /\ last' = Result("create_resume", "success", nextId, <<>>, "", mac_json)
                 /\ UNCHANGED << _raw_europass_xml, xml_file >>

\* a variant that validates the names without .strip()
create_resume_NoStrip(mac_json) ==
    LET name     == Get(ProfileOf(mac_json), "name", <<>>)
        surnames == Get(ProfileOf(mac_json), "surnames", <<>>)
    IN  IF name = <<>> \/ surnames = <<>>
        THEN /\ last' = Result("create_resume", "error", 0, <<>>, "", mac_json)
             /\ UNCHANGED << _resumes, _raw_europass_xml, nextId, xml_file >>
        ELSE LET kept == IF Len(_resumes) >= _MAX_RESUMES THEN Tail(_resumes) ELSE _resumes
             IN  /\ _resumes' = Append(kept, [id |-> nextId, mac |-> mac_json])
                 /\ nextId' = nextId + 1
                 /\ last' = Result("create_resume", "success", nextId, <<>>, "", mac_json)
                 /\ UNCHANGED << _raw_europass_xml, xml_file >>

\* create_resume(mac_json)
create_resume(mac_json) ==
    LET name     == Strip(Get(ProfileOf(mac_json), "name", <<>>))
        surnames == Strip(Get(ProfileOf(mac_json), "surnames", <<>>))
    IN  IF name = <<>> \/ surnames = <<>>
        THEN /\ last' = Result("create_resume", "error", 0, <<>>, "", mac_json)
             /\ UNCHANGED << _resumes, _raw_europass_xml, nextId, xml_file >>
        ELSE LET kept == IF Len(_resumes) >= _MAX_RESUMES THEN Tail(_resumes) ELSE _resumes
             IN  /\ _resumes' = Append(kept, [id |-> nextId, mac |-> mac_json])
                 /\ nextId' = nextId + 1
                 /\ last' = Result("create_resume", "success", nextId, <<>>, "", mac_json)
                 /\ UNCHANGED << _raw_europass_xml, xml_file >>

\* the record import_cv stores in direct mode (parse_to_mac = False): the names are
\* the first match of <oa:GivenName>([^<]+)</oa:GivenName>, stripped, or "Unknown"
DirectModeMac(xml) ==
    ("$schema" :> SchemaUrl)
    @@ [settings |-> [language |-> << "f", "r" >>],
        aboutMe |-> [profile |->
            [name     |-> IF xml.given # <<>> THEN Strip(xml.given) ELSE s_Unknown,
             surnames |-> IF xml.family # <<>> THEN Strip(xml.family) ELSE s_Unknown,
             title    |-> "(Imported from Europass XML - direct mode)"]],
        _imported_from |-> "file",
        _is_raw_europass |-> TRUE]

\* import_cv(file_path, parse_to_mac).  The file is
\*   [kind |-> "xml", xml |-> document]   an .xml file, or a .pdf with an embedded document
\*   [kind |-> "text", extracted |-> <<>> or <<record>>]
\*                                        a .docx, or a .pdf without one: the result of
\*                                        the LLM extraction, when it is available
\*   [kind |-> "none"]                    no such file, or an unsupported suffix
\* The "LRU cleanup" of lines 830-835 follows two branches that both return: it never runs.
import_cv(file, parse_to_mac) ==
    IF file.kind = "none"
    THEN /\ last' = Result("import_cv", "error", 0, <<>>, "", EmptyDict)
         /\ UNCHANGED << _resumes, _raw_europass_xml, nextId, xml_file >>
    ELSE IF file.kind = "text"
    THEN IF file.extracted = <<>>
         THEN /\ last' = Result("import_cv", "partial", 0, <<>>, "", EmptyDict)
              /\ UNCHANGED << _resumes, _raw_europass_xml, nextId, xml_file >>
         ELSE /\ _resumes' = Append(_resumes,
                                 [id |-> nextId,
                                  mac |-> [_imported_from |-> "file"] @@ file.extracted[1]])
              /\ nextId' = nextId + 1
              /\ last' = Result("import_cv", "success", nextId, <<>>, "extracted", EmptyDict)
              /\ UNCHANGED << _raw_europass_xml, xml_file >>
    ELSE IF ~file.xml.looksEuropass
    THEN /\ last' = Result("import_cv", "error", 0, <<>>, "", EmptyDict)
         /\ UNCHANGED << _resumes, _raw_europass_xml, nextId, xml_file >>
    ELSE /\ _raw_europass_xml' = (nextId :> file.xml) @@ _raw_europass_xml
         /\ nextId' = nextId + 1
         /\ UNCHANGED xml_file
         /\ IF parse_to_mac
            THEN IF file.xml.wellFormed
                 THEN /\ _resumes' =
                            Append(_resumes,
                                   [id |-> nextId,
                                    mac |-> [_imported_from |-> "file"]
                                            @@ _europass_xml_to_mac(file.xml)])
                      /\ last' = Result("import_cv", "success", nextId, <<>>, "parsed", EmptyDict)
                 ELSE \* ET.fromstring raises after line 753 stored the document
                      /\ last' = Result("import_cv", "error", nextId, <<>>, "", EmptyDict)
                      /\ UNCHANGED _resumes
            ELSE /\ _resumes' = Append(_resumes, [id |-> nextId, mac |-> DirectModeMac(file.xml)])
                 /\ last' = Result("import_cv", "success", nextId, <<>>, "direct", EmptyDict)

\* a variant that replaces every top-level value of the update wholesale
MergeTopLevel_Wholesale(existing, mac_json) ==
    [key \in DOMAIN existing \cup DOMAIN mac_json |->
        IF key \notin DOMAIN mac_json THEN existing[key] ELSE mac_json[key]]

\* for key, value in mac_json.items(): merge one level into a stored dict, else replace
MergeTopLevel(existing, mac_json) ==
    [key \in DOMAIN existing \cup DOMAIN mac_json |->
        IF key \notin DOMAIN mac_json THEN existing[key]
        ELSE IF key \in DictKeys /\ key \in DOMAIN existing
             THEN mac_json[key] @@ existing[key]
             ELSE mac_json[key]]

\* a variant that never clears the imported document
RawAfterUpdate_Kept(resume_id, use_mac_conversion) == _raw_europass_xml

\* if use_mac_conversion and resume_id in _raw_europass_xml: del _raw_europass_xml[resume_id]
RawAfterUpdate(resume_id, use_mac_conversion) ==
    IF use_mac_conversion /\ resume_id \in DOMAIN _raw_europass_xml
    THEN DelKey(_raw_europass_xml, resume_id)
    ELSE _raw_europass_xml

\* update_resume(resume_id, mac_json, use_mac_conversion)
update_resume(resume_id, mac_json, use_mac_conversion) ==
    IF resume_id \notin ResidentIds
    THEN /\ last' = Result("update_resume", "error", resume_id, <<>>, "", mac_json)
         /\ UNCHANGED << _resumes, _raw_europass_xml, nextId, xml_file >>
    ELSE /\ _resumes' = [_resumes EXCEPT ![Resume(resume_id)].mac = MergeTopLevel(@, mac_json)]
         /\ _raw_europass_xml' = RawAfterUpdate(resume_id, use_mac_conversion)
         /\ last' = Result("update_resume", "success", resume_id, <<>>,
                           IF use_mac_conversion THEN "mac" ELSE "keep", mac_json)
         /\ UNCHANGED << nextId, xml_file >>

\* a variant that leaves the imported document of the deleted record in place
delete_resume_KeepsRaw(resume_id) ==
    IF resume_id \notin ResidentIds
    THEN /\ last' = Result("delete_resume", "error", resume_id, <<>>, "", EmptyDict)
         /\ UNCHANGED << _resumes, _raw_europass_xml, nextId, xml_file >>
    ELSE /\ _resumes' = DelItem(_resumes, resume_id)
         /\ last' = Result("delete_resume", "success", resume_id, <<>>, "", EmptyDict)
         /\ UNCHANGED << _raw_europass_xml, nextId, xml_file >>

\* delete_resume(resume_id)
delete_resume(resume_id) ==
    IF resume_id \notin ResidentIds
    THEN /\ last' = Result("delete_resume", "error", resume_id, <<>>, "", EmptyDict)
         /\ UNCHANGED << _resumes, _raw_europass_xml, nextId, xml_file >>
    ELSE /\ _resumes' = DelItem(_resumes, resume_id)
         /\ _raw_europass_xml' =
                IF resume_id \in DOMAIN _raw_europass_xml
                THEN DelKey(_raw_europass_xml, resume_id)
                ELSE _raw_europass_xml
         /\ last' = Result("delete_resume", "success", resume_id, <<>>, "", EmptyDict)
         /\ UNCHANGED << nextId, xml_file >>

\* list_resumes()
list_resumes ==
    /\ last' = Result("list_resumes", "success", Len(_resumes), <<>>, "", EmptyDict)
    /\ UNCHANGED << _resumes, _raw_europass_xml, nextId, xml_file >>

\* a variant that always converts the record
EuropassXmlFor_AlwaysConverted(id) == _mac_to_europass_xml(MacOf(_resumes, id))

\* the document generate_pdf writes for a resident id: the imported one when there is
\* one, the converted record otherwise
EuropassXmlFor(id) ==
    IF id \in DOMAIN _raw_europass_xml
    THEN _raw_europass_xml[id]
    ELSE _mac_to_europass_xml(MacOf(_resumes, id))

\* generate_pdf(output_path, resume_id, template): resume_id 0 is None (use the most
\* recent).  The calls of one session run one after the other; browser_ok is whether the
\* upload and the download succeed.  The document is written to xml_path, uploaded from
\* there, and removed again when the browser part fails.
generate_pdf(resume_id, template, browser_ok) ==
    IF template \notin VALID_TEMPLATES
    THEN /\ last' = Result("generate_pdf", "error", resume_id, <<>>, "", EmptyDict)
         /\ UNCHANGED << _resumes, _raw_europass_xml, nextId, xml_file >>
    ELSE IF (resume_id # 0 /\ resume_id \notin ResidentIds) \/ (resume_id = 0 /\ _resumes = <<>>)
    THEN /\ last' = Result("generate_pdf", "error", resume_id, <<>>, "", EmptyDict)
         /\ UNCHANGED << _resumes, _raw_europass_xml, nextId, xml_file >>
    ELSE LET id == IF resume_id # 0 THEN resume_id ELSE _resumes[Len(_resumes)].id
             imported == id \in DOMAIN _raw_europass_xml
             europass_xml == EuropassXmlFor(id)
         IN  /\ xml_file' = IF browser_ok THEN << europass_xml >> ELSE <<>>
             /\ last' = Result("generate_pdf", IF browser_ok THEN "success" ELSE "error",
                               id, << europass_xml >>,
                               IF imported THEN "imported" ELSE "converted", EmptyDict)
             /\ UNCHANGED << _resumes, _raw_europass_xml, nextId >>

(***************************************************************************)
(* The translation run: import a document or author a record, export it,   *)
(* import the export                                                       *)
(***************************************************************************)

RT_Import(xml) ==
    /\ rt_pc = "start"
    /\ rt_xml' = xml
    /\ rt_src' = "import"
    /\ IF xml.wellFormed
       THEN rt_pc' = "imported" /\ rt_mac' = _europass_xml_to_mac(xml)
       ELSE rt_pc' = "import_failed" /\ UNCHANGED rt_mac
    /\ UNCHANGED << rt_out, rt_mac2 >>
    /\ UNCHANGED store_vars
    /\ UNCHANGED fn_vars

RT_Author(mac) ==
    /\ rt_pc = "start"
    /\ rt_pc' = "authored"
    /\ rt_src' = "author"
    /\ rt_mac' = mac
    /\ UNCHANGED << rt_xml, rt_out, rt_mac2 >>
    /\ UNCHANGED store_vars
    /\ UNCHANGED fn_vars

RT_Export ==
    /\ rt_pc \in {"imported", "authored"}
    /\ rt_pc' = "exported"
    /\ rt_out' = _mac_to_europass_xml(rt_mac)
    /\ UNCHANGED << rt_src, rt_xml, rt_mac, rt_mac2 >>
    /\ UNCHANGED store_vars
    /\ UNCHANGED fn_vars

RT_Reimport ==
    /\ rt_pc = "exported"
    /\ IF rt_out.wellFormed
       THEN rt_pc' = "reimported" /\ rt_mac2' = _europass_xml_to_mac(rt_out)
       ELSE rt_pc' = "reimport_failed" /\ UNCHANGED rt_mac2
    /\ UNCHANGED << rt_src, rt_xml, rt_mac, rt_out >>
    /\ UNCHANGED store_vars
    /\ UNCHANGED fn_vars

(***************************************************************************)
(* Bounds and inputs of the store                                          *)
(***************************************************************************)

\* tool calls in a run of Spec
MaxCalls == 3

\* calls other than a plain create_resume in a run of SpecLRU
MaxSpecial == 1

\* ids issued in a run of SpecLRU: enough to evict after the store is full
MaxResumeIds == 53

s_Ada == <<"A","d","a">>

s_Lovelace == <<"L","o","v","e","l","a","c","e">>

s_Grace == <<"G","r","a","c","e">>

s_Hopper == <<"H","o","p","p","e","r">>

\* a record with a second key under aboutMe and under knowledge
DefaultMac ==
    [aboutMe |-> [profile |-> [name |-> s_Ada, surnames |-> s_Lovelace],
                  relevantLinks |-> << [type |-> "github", URL |-> "https://github.com/ada"] >>],
     knowledge |-> [languages |-> << [name |-> <<"E","n","g","l","i","s","h">>,
                                      level |-> <<"F","u","l","l"," ","p","r","o","f","e","s","s","i","o","n","a","l"," ","p","r","o","f","i","c","i","e","n","c","y">>] >>,
                    studies |-> << [studyType |-> "officialDegree", name |-> <<"M","S","c">>,
                                    startDate |-> <<"2","0","1","0","-","0","9">>,
                                    institution |-> [name |-> "MIT"]] >>]]

\* create_resume inputs: a full record, and records whose given or family name is
\* missing, empty or blank
CreateInputs ==
    { DefaultMac,
      MkMac(<<>>, s_Hopper),
      MkMac(<< " " >>, s_Hopper),
      MkMac(s_Grace, << " ", "\t" >>),
      [aboutMe |-> [profile |-> [name |-> s_Grace]]],
      [settings |-> [language |-> << "E", "N" >>]] }

\* the create_resume inputs without a usable given or family name
RejectedInputs == CreateInputs \ {DefaultMac}

\* update_resume inputs: a new profile, a profile without the given name, new languages,
\* a top-level value that is no dict, nothing
UpdateInputs ==
    { [aboutMe |-> [profile |-> [name |-> s_Grace, surnames |-> s_Hopper]]],
      [aboutMe |-> [profile |-> [surnames |-> s_Hopper]]],
      [knowledge |-> [languages |-> << [name |-> <<"f","r">>,
                                        level |-> <<"N","a","t","i","v","e">>] >>]],
      [profilePicture |-> RawJpegPayload] }

ImportedXml ==
    MkXml(<< [name |-> "Acme",
              positions |-> << [title |-> "Lead", start |-> <<"2","0","2","2","-","0","3">>,
                                hasEnd |-> FALSE, end |-> <<>>, current |-> s_true,
                                description |-> <<>>] >>] >>,
          <<>>, << <<"f","r","e">> >>, <<>>, <<>>)

\* import_cv inputs
FileInputs ==
    { [kind |-> "xml", xml |-> ImportedXml],
      [kind |-> "xml", xml |-> [ImportedXml EXCEPT !.given = <<>>, !.family = << " " >>]],
      [kind |-> "xml", xml |-> [MalformedXml EXCEPT !.given = s_Grace]],
      [kind |-> "xml", xml |-> [MalformedXml EXCEPT !.looksEuropass = FALSE]],
      [kind |-> "text", extracted |-> << MkMac(s_Grace, s_Hopper) >>],
      [kind |-> "text", extracted |-> << MkMac(s_Grace, <<>>) >>],
      [kind |-> "text", extracted |-> <<>>],
      [kind |-> "none"] }

TemplateInputs == {"cv-formal", "cv-fancy"}

\* ids a client may name: every id issued so far, and one never issued
IdInputs == 1..nextId

(***************************************************************************)
(* Specifications                                                          *)
(***************************************************************************)

InitIdle ==
    /\ _resumes = <<>>
    /\ _raw_europass_xml = EmptyDict
    /\ nextId = 1
    /\ xml_file = <<>>
    /\ last = Result("none", "", 0, <<>>, "", EmptyDict)
    /\ calls = 0
    /\ rt_pc = "start"
    /\ rt_src = ""
    /\ rt_xml = EmptyDict
    /\ rt_mac = EmptyDict
    /\ rt_out = EmptyDict
    /\ rt_mac2 = EmptyDict

Init ==
    /\ InitIdle
    /\ fn_pc = "idle"
    /\ fn_in = <<>>
    /\ fn_arg = 0
    /\ fn_out = <<>>
    /\ fn_out2 = <<>>

Counted(n) == calls < n /\ calls' = calls + 1 /\ UNCHANGED rt_vars /\ UNCHANGED fn_vars

CreateResume == \E m \in CreateInputs : create_resume(m) /\ Counted(MaxCalls)

ImportCv == \E f \in FileInputs, p \in BOOLEAN : import_cv(f, p) /\ Counted(MaxCalls)

UpdateResume ==
    \E i \in IdInputs, m \in UpdateInputs, c \in BOOLEAN :
        update_resume(i, m, c) /\ Counted(MaxCalls)

DeleteResume == \E i \in IdInputs : delete_resume(i) /\ Counted(MaxCalls)

GeneratePdf ==
    \E i \in {0} \cup IdInputs, t \in TemplateInputs, ok \in BOOLEAN :
        generate_pdf(i, t, ok) /\ Counted(MaxCalls)

ListResumes == list_resumes /\ Counted(MaxCalls)

\* the store: every tool, runs of at most MaxCalls calls
Next ==
    \/ CreateResume
    \/ ImportCv
    \/ UpdateResume
    \/ DeleteResume
    \/ GeneratePdf
    \/ ListResumes

Spec == Init /\ [][Next]_vars

\* ids a client names in the long runs: the oldest and the newest resident, and one
\* never issued
EdgeIds ==
    (IF _resumes = <<>> THEN {} ELSE {_resumes[1].id, _resumes[Len(_resumes)].id})
    \cup {nextId}

MinimalMac == MkMac(s_Ada, s_Lovelace)

GraceUpdate == [aboutMe |-> [profile |-> [name |-> s_Grace, surnames |-> s_Hopper]]]

\* a plain create_resume, not counted against MaxSpecial
Fill ==
    /\ nextId <= MaxResumeIds
    /\ create_resume(MinimalMac)
    /\ UNCHANGED calls
    /\ UNCHANGED rt_vars
    /\ UNCHANGED fn_vars

RejectedAtEdge == \E m \in RejectedInputs : create_resume(m) /\ Counted(MaxSpecial)

ImportAtEdge ==
    /\ nextId <= MaxResumeIds
    /\ \E p \in BOOLEAN : import_cv([kind |-> "xml", xml |-> ImportedXml], p)
    /\ Counted(MaxSpecial)

UpdateAtEdge ==
    \E i \in EdgeIds, c \in BOOLEAN : update_resume(i, GraceUpdate, c) /\ Counted(MaxSpecial)

DeleteAtEdge == \E i \in EdgeIds : delete_resume(i) /\ Counted(MaxSpecial)

GenerateAtEdge ==
    \E i \in {0} \cup EdgeIds : generate_pdf(i, "cv-formal", TRUE) /\ Counted(MaxSpecial)

ListAtEdge == list_resumes /\ Counted(MaxSpecial)

\* create_resume from the empty store to its capacity and beyond, with at most MaxSpecial
\* calls that do not add a record (rejected creates, updates, reads) among them
NextCreate ==
    \/ Fill
    \/ RejectedAtEdge
    \/ UpdateAtEdge
    \/ GenerateAtEdge
    \/ ListAtEdge

SpecCreate == Init /\ [][NextCreate]_vars

\* the same long runs with at most MaxSpecial imports, deletes or updates among them
NextLRU ==
    \/ Fill
    \/ ImportAtEdge
    \/ UpdateAtEdge
    \/ DeleteAtEdge

SpecLRU == Init /\ [][NextLRU]_vars

\* the translation alone
NextRT ==
    \/ \E x \in XmlInputs : RT_Import(x)
    \/ \E m \in AuthoredMacs : RT_Author(m)
    \/ RT_Export
    \/ RT_Reimport

SpecRT == Init /\ [][NextRT]_vars

(***************************************************************************)
(* _validate_date on its own: the argument is drawn at the start, the one  *)
(* step applies the function to it and then to its own result.             *)
(***************************************************************************)
MaxPad == 1

\* whitespace around the date, at most MaxPad characters on a side
Pads == UNION { [1..n -> {" ", "\n"}] : n \in 0..MaxPad }

DateHeads ==
    { <<"2","0","2","4">>, <<"0","3">>, <<"3">>, <<"2","0","2","4","5">>, <<"2","o","2","4">>,
      <<"2","0","U0663","4">>, <<>> }

DateSeps == { <<"-">>, <<"/">>, <<" ">>, <<>> }

DateMids == { <<"0","3">>, <<"1","3">>, <<"2","0","2","4">>, <<"3">>, <<"m","3">>, <<>> }

DateDays == { <<"-","1","7">>, <<"-","7">>, <<"/","1","7">>, <<"-","1","7","T">>, <<>> }

DateInputs ==
    { p1 \o h \o sep \o m \o d \o p2 :
        p1 \in Pads, h \in DateHeads, sep \in DateSeps, m \in DateMids, d \in DateDays, p2 \in Pads }

InitDate ==
    /\ InitIdle
    /\ fn_pc = "input"
    /\ fn_in \in DateInputs
    /\ fn_arg = 0
    /\ fn_out = <<>>
    /\ fn_out2 = <<>>

ValidateDate ==
    /\ fn_pc = "input"
    /\ fn_out' = _validate_date(fn_in)
    /\ fn_out2' = _validate_date(_validate_date(fn_in))
    /\ fn_pc' = "done"
    /\ UNCHANGED << fn_in, fn_arg >>
    /\ UNCHANGED store_vars
    /\ UNCHANGED rt_vars

NextDate == ValidateDate

SpecDate == InitDate /\ [][NextDate]_vars

(***************************************************************************)
(* html_transform.py.  An HTML text is the sequence of its tags and texts: *)
(*   open tag   name, the value of its class attribute when it has one,    *)
(*              whether it carries data-list="bullet", and whether a blank *)
(*              is left before its ">" (as in "<p >")                      *)
(*   close tag  name                                                       *)
(*   text       the characters between two tags                            *)
(* The texts of the inputs contain no "<", ">", "&" or quote, so a text is *)
(* written and read back as it is.  The parser is the tree construction of *)
(* HTML5, which Lexbor implements, on the tags used here; a node of the    *)
(* tree is an element with its children or a text ("-text").               *)
(***************************************************************************)
OpenTag(name, hasClass, class, dataList, gap) ==
    [k |-> "open", name |-> name, hasClass |-> hasClass, class |-> class,
     dataList |-> dataList, gap |-> gap, text |-> <<>>]

CloseTag(name) ==
    [k |-> "close", name |-> name, hasClass |-> FALSE, class |-> <<>>,
     dataList |-> FALSE, gap |-> FALSE, text |-> <<>>]

TextTok(text) ==
    [k |-> "text", name |-> "", hasClass |-> FALSE, class |-> <<>>,
     dataList |-> FALSE, gap |-> FALSE, text |-> text]

Element(tag, hasClass, class, dataList, kids) ==
    [tag |-> tag, hasClass |-> hasClass, class |-> class, dataList |-> dataList,
     text |-> <<>>, kids |-> kids]

TextNode(text) ==
    [tag |-> "-text", hasClass |-> FALSE, class |-> <<>>, dataList |-> FALSE,
     text |-> text, kids |-> <<>>]

Headings == {"h1", "h2", "h3", "h4", "h5", "h6"}

ListTags == {"ul", "ol"}

\* elements without content and without an end tag
VoidTags == {"link", "br"}

\* the "special" elements of the tree construction among the tags used here
SpecialTags == ListTags \cup Headings \cup {"li", "p", "link", "br"}

\* the stack of open elements, the body at the bottom; each holds the children it has so far
AddKid(stack, node) == [stack EXCEPT ![Len(stack)].kids = Append(@, node)]

\* a character token: appended to the text node before it, if any
AddText(stack, text) ==
    LET kids == stack[Len(stack)].kids
    IN  IF kids # <<>> /\ kids[Len(kids)].tag = "-text"
        THEN [stack EXCEPT ![Len(stack)].kids[Len(kids)].text = @ \o text]
        ELSE AddKid(stack, TextNode(text))

\* pop the current node: it is complete, and a child of the node below it
Close1(stack) == AddKid(SubSeq(stack, 1, Len(stack) - 1), stack[Len(stack)])

\* pop until an element with one of the names has been popped
RECURSIVE CloseTo(_, _)
CloseTo(stack, names) ==
    IF stack[Len(stack)].tag \in names THEN Close1(stack) ELSE CloseTo(Close1(stack), names)

\* "has an element in scope": an open element with one of the names, with no element of
\* the boundary above it
InScope(stack, names, boundary) ==
    \E i \in 2..Len(stack) :
        /\ stack[i].tag \in names
        /\ \A j \in (i + 1)..Len(stack) : stack[j].tag \notin boundary

ClosePIfOpen(stack) == IF InScope(stack, {"p"}, {}) THEN CloseTo(stack, {"p"}) ELSE stack

\* a start tag "in body"
StartTag(stack, tok) ==
    LET node == Element(tok.name, tok.hasClass, tok.class, tok.dataList, <<>>)
    IN  IF tok.name \in VoidTags THEN AddKid(stack, node)
        ELSE IF tok.name = "li"
        THEN LET s1 == IF InScope(stack, {"li"}, ListTags \cup Headings)
                       THEN CloseTo(stack, {"li"}) ELSE stack
             IN  Append(ClosePIfOpen(s1), node)
        ELSE IF tok.name \in Headings
        THEN LET s1 == ClosePIfOpen(stack)
             IN  Append(IF s1[Len(s1)].tag \in Headings THEN Close1(s1) ELSE s1, node)
        ELSE IF tok.name \in ListTags \cup {"p"}
        THEN Append(ClosePIfOpen(stack), node)
        ELSE Append(stack, node)

\* an end tag "in body"; one that closes nothing is ignored, but </p> stands for <p></p>
EndTag(stack, name) ==
    IF name \in ListTags
    THEN IF InScope(stack, {name}, {}) THEN CloseTo(stack, {name}) ELSE stack
    ELSE IF name = "li"
    THEN IF InScope(stack, {"li"}, ListTags) THEN CloseTo(stack, {"li"}) ELSE stack
    ELSE IF name = "p"
    THEN IF InScope(stack, {"p"}, {}) THEN CloseTo(stack, {"p"})
         ELSE AddKid(stack, Element("p", FALSE, <<>>, FALSE, <<>>))
    ELSE IF name \in Headings
    THEN IF InScope(stack, Headings, {}) THEN CloseTo(stack, Headings) ELSE stack
    ELSE IF InScope(stack, {name}, SpecialTags) THEN CloseTo(stack, {name}) ELSE stack

RECURSIVE CloseAll(_)
CloseAll(stack) == IF Len(stack) = 1 THEN stack ELSE CloseAll(Close1(stack))

\* the tokens are taken one by one; at the end of the text every open element is closed
RECURSIVE TreeConstruction(_, _)
TreeConstruction(stack, html) ==
    IF html = <<>> \/ stack = <<>> THEN CloseAll(stack)[1].kids
    ELSE LET tok == Head(html)
         IN  TreeConstruction(
                 IF tok.k = "text" THEN AddText(stack, tok.text)
                 ELSE IF tok.k = "open" THEN StartTag(stack, tok)
                 ELSE EndTag(stack, tok.name),
                 Tail(html))

\* before the body starts, white space is dropped and a link element goes to the head
RECURSIVE SkipHead(_)
SkipHead(html) ==
    IF html = <<>> THEN <<>>
    ELSE IF Head(html).k = "text"
    THEN (IF LStrip(Head(html).text) = <<>> THEN SkipHead(Tail(html))
          ELSE << TextTok(LStrip(Head(html).text)) >> \o Tail(html))
    ELSE IF Head(html).k = "open" /\ Head(html).name = "link" THEN SkipHead(Tail(html))
    ELSE html

\* tree = LexborHTMLParser(html); body = tree.css_first('body'): the children of the body
LexborHTMLParser(html) ==
    TreeConstruction(<< Element("body", FALSE, <<>>, FALSE, <<>>) >>, SkipHead(html))

\* body.html without the body tags: the serialization of the children
RECURSIVE BodyHtml(_)
BodyHtml(kids) ==
    IF kids = <<>> THEN <<>>
    ELSE LET node == Head(kids)
         IN  (IF node.tag = "-text" THEN << TextTok(node.text) >>
              ELSE IF node.tag \in VoidTags
              THEN << OpenTag(node.tag, node.hasClass, node.class, node.dataList, FALSE) >>
              ELSE << OpenTag(node.tag, node.hasClass, node.class, node.dataList, FALSE) >>
                   \o BodyHtml(node.kids) \o << CloseTag(node.tag) >>)
             \o BodyHtml(Tail(kids))

s_heading_child == <<"h","e","a","d","i","n","g","-","c","h","i","l","d">>

s_heading_parent == <<"h","e","a","d","i","n","g","-","p","a","r","e","n","t">>

s_ql_ui == <<"q","l","-","u","i">>

s_ql_indent == <<"q","l","-","i","n","d","e","n","t","-">>

\* node.text(strip=True): the texts under the node, each one stripped, joined
RECURSIVE NodeText(_)
NodeText(kids) ==
    IF kids = <<>> THEN <<>>
    ELSE (IF Head(kids).tag = "-text" THEN Strip(Head(kids).text)
          ELSE NodeText(Head(kids).kids))
         \o NodeText(Tail(kids))

\* heading.next, skipping the texts: the position of the next element sibling, 0 if none
NextElement(kids, i) ==
    IF \E j \in (i + 1)..Len(kids) : kids[j].tag # "-text"
    THEN CHOOSE j \in (i + 1)..Len(kids) :
             kids[j].tag # "-text" /\ \A m \in (i + 1)..(j - 1) : kids[m].tag = "-text"
    ELSE 0

\* a heading the loop does not skip
HeadingWithText(node) == node.tag \in Headings /\ NodeText(node.kids) # <<>>

FollowedByList(kids, i) ==
    NextElement(kids, i) # 0 /\ kids[NextElement(kids, i)].tag \in ListTags

\* for li in next_elem.css('li'): the class heading-child is added to every item under
\* the list
RECURSIVE MarkItems(_)
MarkItems(kids) ==
    [i \in DOMAIN kids |->
        IF kids[i].tag = "-text" THEN kids[i]
        ELSE IF kids[i].tag = "li"
        THEN [kids[i] EXCEPT !.kids = MarkItems(@),
                             !.hasClass = TRUE,
                             !.class = IF kids[i].hasClass /\ kids[i].class # <<>>
                                       THEN kids[i].class \o << " " >> \o s_heading_child
                                       ELSE s_heading_child]
        ELSE [kids[i] EXCEPT !.kids = MarkItems(@)]]

\* <ol><li data-list="bullet" class="heading-parent"><span class="ql-ui"></span>
\* <strong>{heading_text}</strong></li></ol>
HeadingParent(heading_text) ==
    Element("ol", FALSE, <<>>, FALSE,
        << Element("li", TRUE, s_heading_parent, TRUE,
               << Element("span", TRUE, s_ql_ui, FALSE, <<>>),
                  Element("strong", FALSE, <<>>, FALSE, << TextNode(heading_text) >>) >>) >>)

\* <p><strong>{heading_text}</strong></p>
BoldParagraph(heading_text) ==
    Element("p", FALSE, <<>>, FALSE,
        << Element("strong", FALSE, <<>>, FALSE, << TextNode(heading_text) >>) >>)

\* _convert_headings_to_bullets(body), on the children of a node: the headings are
\* visited in document order, so the items of a list are marked by the heading before
\* the list first and by the headings inside the list afterwards
RECURSIVE _convert_headings_to_bullets(_)
_convert_headings_to_bullets(kids) ==
    [i \in DOMAIN kids |->
        IF kids[i].tag = "-text" THEN kids[i]
        ELSE IF HeadingWithText(kids[i])
        THEN IF FollowedByList(kids, i)
             THEN HeadingParent(NodeText(kids[i].kids))
             ELSE BoldParagraph(NodeText(kids[i].kids))
        ELSE LET marked == /\ kids[i].tag \in ListTags
                           /\ \E h \in 1..(i - 1) :
                                  HeadingWithText(kids[h]) /\ NextElement(kids, h) = i
             IN  [kids[i] EXCEPT !.kids =
                      _convert_headings_to_bullets(IF marked THEN MarkItems(@) ELSE @)]]

\* int(indent_match.group(1)) on the ASCII digits
DigitValue ==
    "0" :> 0 @@ "1" :> 1 @@ "2" :> 2 @@ "3" :> 3 @@ "4" :> 4 @@
    "5" :> 5 @@ "6" :> 6 @@ "7" :> 7 @@ "8" :> 8 @@ "9" :> 9

\* the digits at the start of s, as a number: (\d+) is greedy
RECURSIVE LeadingInt(_, _)
LeadingInt(s, acc) ==
    IF s # <<>> /\ Head(s) \in DOMAIN DigitValue
    THEN LeadingInt(Tail(s), 10 * acc + DigitValue[Head(s)])
    ELSE acc

\* re.search(r'ql-indent-(\d+)', existing_classes): the first occurrence followed by a
\* digit, 0 when there is none
RECURSIVE IndentOfClass(_)
IndentOfClass(classes) ==
    IF classes = <<>> THEN 0
    ELSE IF /\ StartsWith(classes, s_ql_indent)
            /\ Len(classes) > Len(s_ql_indent)
            /\ classes[Len(s_ql_indent) + 1] \in DOMAIN DigitValue
    THEN LeadingInt(SubSeq(classes, Len(s_ql_indent) + 1, Len(classes)), 0)
    ELSE IndentOfClass(Tail(classes))

\* str(indent)
RECURSIVE IntToStr(_)
IntToStr(n) ==
    IF n < 10 THEN << Ascii[17 + n] >> ELSE IntToStr(n \div 10) \o << Ascii[17 + (n % 10)] >>

Min(a, b) == IF a < b THEN a ELSE b

\* process_li(match): the tag that replaces one <li ...>, from the value of its class
process_li(existing_classes, max_indent) ==
    LET is_heading_child == Contains(existing_classes, s_heading_child)
        indent0 == IndentOfClass(existing_classes)
        indent1 == IF is_heading_child /\ indent0 = 0 THEN 1 ELSE indent0
        indent  == Min(indent1, max_indent)
    IN  OpenTag("li", indent > 0,
                IF indent > 0 THEN s_ql_indent \o IntToStr(indent) ELSE <<>>, TRUE, FALSE)

\* the tags r'<li([^>]*)>' matches: every start tag whose name begins with "li"
MatchesLi(tok) == tok.k = "open" /\ tok.name \in {"li", "link"}

\* re.sub(r'\s*word\s*', '', s): the leftmost occurrences, with the white space around them
RECURSIVE RemoveWord(_, _)
RemoveWord(s, word) ==
    IF s = <<>> THEN <<>>
    ELSE IF StartsWith(LStrip(s), word)
    THEN RemoveWord(LStrip(SubSeq(LStrip(s), Len(word) + 1, Len(LStrip(s)))), word)
    ELSE << Head(s) >> \o RemoveWord(Tail(s), word)

RemoveMarkers(s) == RemoveWord(RemoveWord(s, s_heading_child), s_heading_parent)

\* the three clean-up substitutions on one tag or text; class="" and class=" " are removed
\* and leave the blank before them in the tag
CleanUp(tok) ==
    IF tok.k = "text" THEN [tok EXCEPT !.text = RemoveMarkers(@)]
    ELSE IF tok.k = "open" /\ tok.hasClass
    THEN IF Strip(RemoveMarkers(tok.class)) = <<>>
         THEN [tok EXCEPT !.hasClass = FALSE, !.class = <<>>, !.gap = TRUE]
         ELSE [tok EXCEPT !.class = RemoveMarkers(@)]
    ELSE tok

s_QlUiOpen == OpenTag("span", TRUE, s_ql_ui, FALSE, FALSE)

\* the marker is added after every <li ...> that is not followed by <span class="ql-ui">
RECURSIVE AddMarkers(_)
AddMarkers(html) ==
    IF html = <<>> THEN <<>>
    ELSE IF MatchesLi(Head(html)) /\ ~(Len(html) > 1 /\ html[2] = s_QlUiOpen)
    THEN << Head(html), s_QlUiOpen, CloseTag("span") >> \o AddMarkers(Tail(html))
    ELSE << Head(html) >> \o AddMarkers(Tail(html))

_convert_lists_to_quill_format(html, max_indent) ==
    LET ol == [i \in DOMAIN html |->
                  IF html[i] = OpenTag("ul", FALSE, <<>>, FALSE, FALSE) THEN OpenTag("ol", FALSE, <<>>, FALSE, FALSE)
                  ELSE IF html[i] = CloseTag("ul") THEN CloseTag("ol")
                  ELSE html[i]]
        li == [i \in DOMAIN ol |->
                  IF MatchesLi(ol[i])
                  THEN process_li(IF ol[i].hasClass THEN ol[i].class ELSE <<>>, max_indent)
                  ELSE ol[i]]
        marked == AddMarkers(li)
    IN  [i \in DOMAIN marked |-> CleanUp(marked[i])]

\* the characters of s other than c
Without(s, c) == SelectSeq(s, LAMBDA x : x # c)

\* a text that has become empty is no part of the string
DropEmptyTexts(html) == SelectSeq(html, LAMBDA tok : ~(tok.k = "text" /\ tok.text = <<>>))

\* result.replace('\n', '').strip()
SingleLine(html) ==
    LET flat == DropEmptyTexts([i \in DOMAIN html |->
                    IF html[i].k = "text" THEN [html[i] EXCEPT !.text = Without(@, "\n")]
                    ELSE html[i]])
        left == IF flat # <<>> /\ flat[1].k = "text"
                THEN << [flat[1] EXCEPT !.text = LStrip(@)] >> \o Tail(flat) ELSE flat
        both == IF left # <<>> /\ left[Len(left)].k = "text"
                THEN [left EXCEPT ![Len(left)].text = RStrip(@)] ELSE left
    IN  DropEmptyTexts(both)

\* not html.strip(): the string has no tag and no character other than white space
IsBlank(html) == \A i \in DOMAIN html : html[i].k = "text" /\ Strip(html[i].text) = <<>>

\* the string after phase 1: the serialized body
Phase1Html(html) == BodyHtml(_convert_headings_to_bullets(LexborHTMLParser(html)))

\* transform_for_europass(html, max_indent); the inputs have no links, which
\* _secure_links would change
transform_for_europass(html, max_indent) ==
    IF IsBlank(html) THEN html
    ELSE SingleLine(_convert_lists_to_quill_format(Phase1Html(html), max_indent))

(***************************************************************************)
(* transform_for_europass on its own: the text and max_indent are drawn at *)
(* the start, the one step applies the function to the text and then to    *)
(* its own result.                                                         *)
(***************************************************************************)
\* blocks in an input text
MaxBlocks == 2

\* the largest max_indent
MaxMaxIndent == 2

Tag(name) == OpenTag(name, FALSE, <<>>, FALSE, FALSE)

TagWithClass(name, class) == OpenTag(name, TRUE, class, FALSE, FALSE)

Item(text) == << Tag("li"), TextTok(text), CloseTag("li") >>

ItemWithClass(class, text) == << TagWithClass("li", class), TextTok(text), CloseTag("li") >>

\* the pieces of an input text: headings, lists (plain, with depth classes, nested, with
\* items left open, with a class of its own), paragraphs, a link element, white space
HtmlBlocks ==
    { << Tag("h2"), TextTok(<<"T","a","s","k","s",":">>), CloseTag("h2") >>,
      << Tag("h3"), TextTok(<<" ">>), CloseTag("h3") >>,
      << Tag("ul") >> \o Item(<<"a">>) \o Item(<<"b">>) \o << CloseTag("ul") >>,
      << Tag("ul") >> \o ItemWithClass(s_ql_indent \o <<"1">>, <<"a">>)
                      \o ItemWithClass(s_ql_indent \o <<"3">>, <<"b">>) \o << CloseTag("ul") >>,
      << Tag("ul"), Tag("li"), TextTok(<<"a">>), Tag("ul") >> \o Item(<<"b">>)
                      \o << CloseTag("ul"), CloseTag("li"), CloseTag("ul") >>,
      << Tag("ol"), Tag("li"), TextTok(<<"a">>), Tag("li"), TextTok(<<"b">>), CloseTag("ol") >>,
      << TagWithClass("ul", <<"x">>) >> \o Item(<<"a">>) \o << CloseTag("ul") >>,
      << Tag("p"), TextTok(<<"a","\n","b">>), CloseTag("p") >>,
      << TagWithClass("p", s_heading_child), TextTok(<<"c">>), CloseTag("p") >>,
      << Tag("link") >>,
      << TextTok(<<"\n"," "," ">>) >> }

RECURSIVE Flatten(_)
Flatten(blocks) == IF blocks = <<>> THEN <<>> ELSE Head(blocks) \o Flatten(Tail(blocks))

HtmlInputs == { Flatten(blocks) : blocks \in BSeq(HtmlBlocks, MaxBlocks) }

InitHtml ==
    /\ InitIdle
    /\ fn_pc = "input"
    /\ fn_in \in HtmlInputs
    /\ fn_arg \in 0..MaxMaxIndent
    /\ fn_out = <<>>
    /\ fn_out2 = <<>>

TransformForEuropass ==
    /\ fn_pc = "input"
    /\ fn_out' = transform_for_europass(fn_in, fn_arg)
    /\ fn_out2' = transform_for_europass(transform_for_europass(fn_in, fn_arg), fn_arg)
    /\ fn_pc' = "done"
    /\ UNCHANGED << fn_in, fn_arg >>
    /\ UNCHANGED store_vars
    /\ UNCHANGED rt_vars

NextHtml == TransformForEuropass

SpecHtml == InitHtml /\ [][NextHtml]_vars

(***************************************************************************)
(* markdown_transform.py.  A text is a tuple of characters, "\n" between   *)
(* its lines.  md.parse is the block structure of CommonMark, which        *)
(* markdown-it implements, on the lines used here: ATX headings, "- "      *)
(* bullet items (nested by their indentation or on one line), paragraph    *)
(* lines with their continuation and lazy continuation lines, blank lines, *)
(* "***" thematic breaks and indented code.  The result is markdown-it's   *)
(* flat list of tokens.                                                    *)
(***************************************************************************)
Spaces(n) == [i \in 1..n |-> " "]

RECURSIVE LeadingSpaces(_)
LeadingSpaces(chars) ==
    IF chars # <<>> /\ Head(chars) = " " THEN 1 + LeadingSpaces(Tail(chars)) ELSE 0

\* the "- " markers at the start of a line that has something after them
RECURSIVE LeadingMarkers(_)
LeadingMarkers(chars) ==
    IF Len(chars) > 2 /\ chars[1] = "-" /\ chars[2] = " " /\ chars[3] # " "
    THEN 1 + LeadingMarkers(SubSeq(chars, 3, Len(chars)))
    ELSE 0

RECURSIVE LeadingHashes(_)
LeadingHashes(chars) ==
    IF chars # <<>> /\ Head(chars) = "#" THEN 1 + LeadingHashes(Tail(chars)) ELSE 0

\* one line as the block rules see it: indentation, bullet markers, and the kind and
\* text of what follows them
ReadLine(chars) ==
    LET indent  == LeadingSpaces(chars)
        bullets == LeadingMarkers(SubSeq(chars, indent + 1, Len(chars)))
        rest    == SubSeq(chars, indent + 2 * bullets + 1, Len(chars))
        hashes  == LeadingHashes(rest)
    IN  [indent |-> indent, bullets |-> bullets, raw |-> chars,
         kind |-> IF rest = <<>> THEN "blank"
                  ELSE IF hashes \in 1..6 /\ (Len(rest) = hashes \/ rest[hashes + 1] = " ")
                  THEN "heading"
                  ELSE IF Len(rest) >= 3 /\ \A i \in DOMAIN rest : rest[i] = "*" THEN "hr"
                  ELSE "text",
         text |-> IF hashes \in 1..6 /\ (Len(rest) = hashes \/ rest[hashes + 1] = " ")
                  THEN Strip(SubSeq(rest, hashes + 1, Len(rest)))
                  ELSE rest]

Tok(type) == [type |-> type, content |-> <<>>]

Inline(content) == [type |-> "inline", content |-> content]

\* the open list items whose content the line continues: the items are at the even
\* places of the stack, each above its list
RECURSIVE Matched(_, _, _)
Matched(stack, indent, n) ==
    IF 2 * (n + 1) <= Len(stack) /\ stack[2 * (n + 1)].offset <= indent
    THEN Matched(stack, indent, n + 1)
    ELSE n

\* the open paragraph ends: its tokens are emitted
ClosePara(st) ==
    IF st.hasPara
    THEN [st EXCEPT !.toks = @ \o << Tok("paragraph_open"), Inline(st.content),
                                       Tok("paragraph_close") >>,
                    !.hasPara = FALSE, !.content = <<>>]
    ELSE st

\* the containers above the first keep of the stack are closed
RECURSIVE CloseDown(_, _)
CloseDown(st, keep) ==
    IF Len(st.stack) <= keep THEN st
    ELSE CloseDown(
             [st EXCEPT !.toks = Append(@, IF st.stack[Len(st.stack)].kind = "item"
                                           THEN Tok("list_item_close")
                                           ELSE Tok("bullet_list_close")),
                        !.stack = SubSeq(@, 1, Len(@) - 1)],
             keep)

\* a list item is opened, in the list that is open or in a new one
OpenItem(st, offset) ==
    LET inList == st.stack # <<>> /\ st.stack[Len(st.stack)].kind = "list"
    IN  [st EXCEPT !.toks = @ \o (IF inList THEN <<>> ELSE << Tok("bullet_list_open") >>)
                              \o << Tok("list_item_open") >>,
                   !.stack = @ \o (IF inList THEN <<>> ELSE << [kind |-> "list", offset |-> 0] >>)
                               \o << [kind |-> "item", offset |-> offset] >>]

\* the items of the markers of one line, each inside the one before
RECURSIVE OpenItems(_, _, _)
OpenItems(st, column, bullets) ==
    IF bullets = 0 THEN st
    ELSE OpenItems(OpenItem(st, column + 2), column + 2, bullets - 1)

\* the block after the markers: a heading, a thematic break, or the start of a paragraph
Leaf(st, line) ==
    IF line.kind = "heading"
    THEN [st EXCEPT !.toks = @ \o << Tok("heading_open"), Inline(line.text), Tok("heading_close") >>]
    ELSE IF line.kind = "hr"
    THEN [st EXCEPT !.toks = Append(@, Tok("hr"))]
    ELSE [st EXCEPT !.hasPara = TRUE, !.content = line.text,
                    !.blk = IF st.stack = <<>> THEN 0 ELSE st.stack[Len(st.stack)].offset]

\* one line of the text
FeedLine(st, line) ==
    LET m    == 2 * Matched(st.stack, line.indent, 0)
        base == IF m = 0 THEN 0 ELSE st.stack[m].offset
        r    == line.indent - base
        cut  == IF line.indent < st.blk THEN line.indent ELSE st.blk
    IN  IF line.kind = "blank" /\ line.bullets = 0 THEN ClosePara(st)
        ELSE IF st.hasPara /\ ((line.bullets = 0 /\ line.kind = "text") \/ r >= 4)
        THEN \* a continuation line, lazy or not; at most blk blanks are taken from it
             [st EXCEPT !.content = @ \o << "\n" >> \o SubSeq(line.raw, cut + 1, Len(line.raw))]
        ELSE IF r >= 4
        THEN [CloseDown(st, m) EXCEPT !.toks = Append(@, Tok("code_block"))]
        ELSE IF line.bullets >= 1
        THEN Leaf(OpenItems(CloseDown(ClosePara(st), IF Len(st.stack) > m THEN m + 1 ELSE m),
                            line.indent, line.bullets),
                  line)
        ELSE Leaf(CloseDown(ClosePara(st), m), line)

RECURSIVE FeedLines(_, _)
FeedLines(st, lines) ==
    IF lines = <<>> THEN CloseDown(ClosePara(st), 0).toks
    ELSE FeedLines(FeedLine(st, ReadLine(Head(lines))), Tail(lines))

\* text.split("\n")
RECURSIVE SplitLines(_, _)
SplitLines(text, line) ==
    IF text = <<>> THEN << line >>
    ELSE IF Head(text) = "\n" THEN << line >> \o SplitLines(Tail(text), <<>>)
    ELSE SplitLines(Tail(text), Append(line, Head(text)))

\* "\n".join(lines)
RECURSIVE JoinLines(_)
JoinLines(lines) ==
    IF lines = <<>> THEN <<>>
    ELSE IF Len(lines) = 1 THEN lines[1]
    ELSE lines[1] \o << "\n" >> \o JoinLines(Tail(lines))

\* tokens = md.parse(text)
MdParse(text) ==
    FeedLines([toks |-> <<>>, stack |-> <<>>, hasPara |-> FALSE, content |-> <<>>, blk |-> 0],
              SplitLines(text, <<>>))

\* find_matching_close: the place of the close token that matches the open token at
\* start (places count from 1 here), or the last place when there is none
RECURSIVE MatchingClose(_, _, _, _, _)
MatchingClose(tokens, i, depth, open_type, close_type) ==
    IF i > Len(tokens) THEN i - 1
    ELSE IF tokens[i].type = open_type
    THEN MatchingClose(tokens, i + 1, depth + 1, open_type, close_type)
    ELSE IF tokens[i].type = close_type
    THEN IF depth = 1 THEN i
         ELSE MatchingClose(tokens, i + 1, depth - 1, open_type, close_type)
    ELSE MatchingClose(tokens, i + 1, depth, open_type, close_type)

find_matching_close(tokens, start, open_type, close_type) ==
    MatchingClose(tokens, start + 1, 1, open_type, close_type)

\* the inner loop of process_bullet_list: the list_item_close of the item opened
\* before close_idx, or Len(tokens) + 1 when there is none
RECURSIVE ItemClose(_, _, _)
ItemClose(tokens, close_idx, depth) ==
    IF close_idx > Len(tokens) THEN close_idx
    ELSE IF tokens[close_idx].type = "list_item_open"
    THEN ItemClose(tokens, close_idx + 1, depth + 1)
    ELSE IF tokens[close_idx].type = "list_item_close"
    THEN IF depth = 1 THEN close_idx ELSE ItemClose(tokens, close_idx + 1, depth - 1)
    ELSE ItemClose(tokens, close_idx + 1, depth)

\* f"{indent_str}- {item_text}"
ItemLine(indent, item_text) == Spaces(indent) \o << "-", " " >> \o item_text

RECURSIVE BulletListLoop(_, _, _, _)
RECURSIVE ListItemLoop(_, _, _, _, _, _)

\* process_list_item: hasText is "item_text is not None"
ListItemLoop(tokens, i, indent, hasText, item_text, output) ==
    IF i > Len(tokens)
    THEN IF hasText /\ item_text # <<>> THEN Append(output, ItemLine(indent, item_text))
         ELSE output
    ELSE IF tokens[i].type = "paragraph_open"
    THEN IF i + 1 <= Len(tokens) /\ tokens[i + 1].type = "inline" /\ ~hasText
         THEN ListItemLoop(tokens, i + 3, indent, TRUE, tokens[i + 1].content, output)
         ELSE ListItemLoop(tokens, i + 3, indent, hasText, item_text, output)
    ELSE IF tokens[i].type = "bullet_list_open"
    THEN LET first     == hasText /\ item_text # <<>>
             close_idx == find_matching_close(tokens, i, "bullet_list_open", "bullet_list_close")
         IN  ListItemLoop(tokens, close_idx + 1, indent,
                          IF first THEN FALSE ELSE hasText,
                          IF first THEN <<>> ELSE item_text,
                          BulletListLoop(SubSeq(tokens, i + 1, close_idx - 1), 1, indent + 2,
                                         IF first THEN Append(output, ItemLine(indent, item_text))
                                         ELSE output))
    ELSE ListItemLoop(tokens, i + 1, indent, hasText, item_text, output)

process_list_item(tokens, indent, output) ==
    ListItemLoop(tokens, 1, indent, FALSE, <<>>, output)

BulletListLoop(tokens, i, base_indent, output) ==
    IF i > Len(tokens) THEN output
    ELSE IF tokens[i].type = "list_item_open"
    THEN LET close_idx == ItemClose(tokens, i + 1, 1)
         IN  BulletListLoop(tokens, close_idx + 1, base_indent,
                            process_list_item(SubSeq(tokens, i + 1, close_idx - 1),
                                              base_indent, output))
    ELSE BulletListLoop(tokens, i + 1, base_indent, output)

process_bullet_list(tokens, base_indent, output) ==
    BulletListLoop(tokens, 1, base_indent, output)

\* the loop of transform_headings_to_bullets over the tokens of the text
RECURSIVE TopLoop(_, _, _, _)
TopLoop(tokens, i, heading_pending, output_lines) ==
    IF i > Len(tokens) THEN output_lines
    ELSE IF tokens[i].type = "heading_open"
    THEN IF i + 1 <= Len(tokens) /\ tokens[i + 1].type = "inline"
         THEN TopLoop(tokens, i + 3, TRUE,
                      Append(output_lines,
                             << "-", " ", "*", "*" >> \o tokens[i + 1].content \o << "*", "*" >>))
         ELSE TopLoop(tokens, i + 3, heading_pending, output_lines)
    ELSE IF tokens[i].type = "paragraph_open"
    THEN IF i + 1 <= Len(tokens) /\ tokens[i + 1].type = "inline" /\ tokens[i + 1].content # <<>>
         THEN TopLoop(tokens, i + 3, FALSE, Append(output_lines, tokens[i + 1].content))
         ELSE TopLoop(tokens, i + 3, heading_pending, output_lines)
    ELSE IF tokens[i].type = "bullet_list_open"
    THEN LET base_indent == IF heading_pending THEN 2 ELSE 0
             close_idx   == find_matching_close(tokens, i, "bullet_list_open", "bullet_list_close")
         IN  TopLoop(tokens, close_idx + 1, FALSE,
                     process_bullet_list(SubSeq(tokens, i + 1, close_idx - 1), base_indent,
                                         output_lines))
    ELSE TopLoop(tokens, i + 1, heading_pending, output_lines)

transform_headings_to_bullets(text) ==
    JoinLines(TopLoop(MdParse(text), 1, FALSE, <<>>))

MaxLines == 3

MdLines ==
    { << "#", " ", "T" >>,
      << "-", " ", "a" >>,
      << " ", " ", "-", " ", "b" >>,
      << " ", " ", " ", " ", "-", " ", "c" >>,
      << "-", " ", "-", " ", "d" >>,
      << "x" >>,
      << " ", " ", "y" >>,
      << >>,
      << "*", "*", "*" >> }

MdInputs == { JoinLines(lines) : lines \in BSeq(MdLines, MaxLines) }

InitMd ==
    /\ InitIdle
    /\ fn_pc = "input"
    /\ fn_in \in MdInputs
    /\ fn_arg = 0
    /\ fn_out = <<>>
    /\ fn_out2 = <<>>

TransformHeadingsToBullets ==
    /\ fn_pc = "input"
    /\ fn_out' = transform_headings_to_bullets(fn_in)
    /\ fn_out2' = transform_headings_to_bullets(transform_headings_to_bullets(fn_in))
    /\ fn_pc' = "done"
    /\ UNCHANGED << fn_in, fn_arg >>
    /\ UNCHANGED store_vars
    /\ UNCHANGED rt_vars

NextMd == TransformHeadingsToBullets

SpecMd == InitMd /\ [][NextMd]_vars

(***************************************************************************)
(* europass_validator.py.  A document is what validate reads of the text:  *)
(* whether ET.fromstring accepts it, the text before the root element (the *)
(* XML declaration), the control characters in the text, and the tree of   *)
(* elements with their tags in the form "{namespace}name" and their texts. *)
(***************************************************************************)
s_NsEuropass ==
    << "h", "t", "t", "p", ":", "/", "/", "w", "w", "w", ".", "e", "u", "r", "o", "p", "a",
    "s", "s", ".", "e", "u", "/", "1", ".", "0" >>

s_NsHr ==
    << "h", "t", "t", "p", ":", "/", "/", "w", "w", "w", ".", "h", "r", "-", "x", "m", "l",
    ".", "o", "r", "g", "/", "3" >>

s_europass ==
    << "e", "u", "r", "o", "p", "a", "s", "s" >>

s_XmlDecl ==
    << "<", "?", "x", "m", "l" >>

s_EncodingDouble ==
    << "e", "n", "c", "o", "d", "i", "n", "g", "=", "\"", "U", "T", "F", "-", "8", "\"" >>

s_EncodingSingle ==
    << "e", "n", "c", "o", "d", "i", "n", "g", "=", "'", "U", "T", "F", "-", "8", "'" >>

s_Candidate ==
    << "C", "a", "n", "d", "i", "d", "a", "t", "e" >>

s_Resume ==
    << "R", "e", "s", "u", "m", "e" >>

s_DocumentID ==
    << "D", "o", "c", "u", "m", "e", "n", "t", "I", "D" >>

s_CandidateSupplier ==
    << "C", "a", "n", "d", "i", "d", "a", "t", "e", "S", "u", "p", "p", "l", "i", "e", "r"
    >>

s_CandidatePerson ==
    << "C", "a", "n", "d", "i", "d", "a", "t", "e", "P", "e", "r", "s", "o", "n" >>

s_CandidateProfile ==
    << "C", "a", "n", "d", "i", "d", "a", "t", "e", "P", "r", "o", "f", "i", "l", "e" >>

s_PersonName ==
    << "P", "e", "r", "s", "o", "n", "N", "a", "m", "e" >>

s_PersonTitle ==
    << "P", "e", "r", "s", "o", "n", "T", "i", "t", "l", "e" >>

s_PersonDescription ==
    << "P", "e", "r", "s", "o", "n", "D", "e", "s", "c", "r", "i", "p", "t", "i", "o", "n"
    >>

s_EmbeddedData ==
    << "E", "m", "b", "e", "d", "d", "e", "d", "D", "a", "t", "a" >>

s_CountryCode ==
    << "C", "o", "u", "n", "t", "r", "y", "C", "o", "d", "e" >>

s_PrimaryLanguageCode ==
    << "P", "r", "i", "m", "a", "r", "y", "L", "a", "n", "g", "u", "a", "g", "e", "C", "o",
    "d", "e" >>

s_CompetencyID ==
    << "C", "o", "m", "p", "e", "t", "e", "n", "c", "y", "I", "D" >>

XmlElement(tag, text, kids) == [tag |-> tag, text |-> text, kids |-> kids]

\* the tag ElementTree gives an element of a namespace
QName(ns, name) == << "{" >> \o ns \o << "}" >> \o name

\* tag.split('}')[-1] if '}' in tag else tag
RECURSIVE LocalName(_)
LocalName(tag) ==
    IF \E i \in DOMAIN tag : tag[i] = "}"
    THEN LocalName(SubSeq(tag, 1 + (CHOOSE i \in DOMAIN tag : tag[i] = "}" /\
                                       \A j \in 1..(i - 1) : tag[j] # "}"), Len(tag)))
    ELSE tag

\* root.iter(): the element and its descendants, in document order
RECURSIVE Iter(_)
RECURSIVE IterAll(_)
Iter(elem) == << elem >> \o IterAll(elem.kids)

IterAll(elems) == IF elems = <<>> THEN <<>> ELSE Iter(Head(elems)) \o IterAll(Tail(elems))

Msg(text, arg) == [msg |-> text, arg |-> arg]

AddError(st, text, arg) == [st EXCEPT !.errors = Append(@, Msg(text, arg))]

AddWarning(st, text, arg) == [st EXCEPT !.warnings = Append(@, Msg(text, arg))]

_check_namespaces(st, root) ==
    LET st1 == IF ~StartsWith(root.tag, << "{" >>)
               THEN AddWarning(st, "Root element should use namespace", <<>>)
               ELSE st
    IN  IF ~Contains(root.tag, s_NsEuropass) /\ ~Contains(Lower(root.tag), s_europass)
        THEN AddError(st1, "Root element must be in Europass namespace", <<>>)
        ELSE st1

_check_root_element(st, root) ==
    IF LocalName(root.tag) # s_Candidate
    THEN AddError(st, "Root element must be 'Candidate'", LocalName(root.tag))
    ELSE st

\* child_tags of _check_candidate_structure
ChildTags(root) == [i \in DOMAIN root.kids |-> LocalName(root.kids[i].tag)]

_check_candidate_structure(st, root) ==
    LET child_tags == ChildTags(root)
        has_document_id == \E i \in DOMAIN child_tags : Contains(child_tags[i], s_DocumentID)
        Has(name) == \E i \in DOMAIN child_tags : child_tags[i] = name
        st1 == IF ~has_document_id
               THEN AddError(st, "Missing required element: hr:DocumentID", <<>>) ELSE st
        st2 == IF ~Has(s_CandidateSupplier)
               THEN AddError(st1, "Missing required element: CandidateSupplier", <<>>) ELSE st1
        st3 == IF ~Has(s_CandidatePerson)
               THEN AddError(st2, "Missing required element: CandidatePerson", <<>>) ELSE st2
    IN  IF ~Has(s_CandidateProfile)
        THEN AddError(st3, "Missing required element: CandidateProfile", <<>>) ELSE st3

\* the loop over the children of CandidatePerson
RECURSIVE PersonWarnings(_, _)
PersonWarnings(st, elems) ==
    IF elems = <<>> THEN st
    ELSE LET local_name == LocalName(Head(elems).tag)
             st1 == IF local_name = s_PersonTitle
                    THEN AddWarning(st, "hr:PersonTitle element may not be supported", <<>>)
                    ELSE st
             st2 == IF local_name = s_PersonDescription
                    THEN AddWarning(st1, "hr:PersonDescription element may not be supported", <<>>)
                    ELSE st1
         IN  PersonWarnings(st2, Tail(elems))

_check_person_elements(st, root) ==
    LET persons == { i \in DOMAIN root.kids : LocalName(root.kids[i].tag) = s_CandidatePerson }
    IN  IF persons = {} THEN st
        ELSE PersonWarnings(st, root.kids[CHOOSE i \in persons : \A j \in persons : i <= j].kids)

\* raw_xml is read here up to the root element
_check_content_encoding(st, prolog) ==
    IF ~StartsWith(Strip(prolog), s_XmlDecl)
    THEN AddWarning(st, "Missing XML declaration", <<>>)
    ELSE IF ~Contains(Take(prolog, 100), s_EncodingDouble)
            /\ ~Contains(Take(prolog, 100), s_EncodingSingle)
    THEN AddWarning(st, "XML should declare UTF-8 encoding", <<>>)
    ELSE st

\* base64.b64decode(data, validate=True) does not raise
Base64Valid(data) ==
    LET n   == Len(data)
        pad == IF n >= 2 /\ data[n] = "=" /\ data[n - 1] = "=" THEN 2
               ELSE IF n >= 1 /\ data[n] = "=" THEN 1 ELSE 0
    IN  /\ n % 4 = 0
        /\ \A i \in 1..(n - pad) : \E k \in DOMAIN B64Alphabet : B64Alphabet[k] = data[i]

RECURSIVE Base64Loop(_, _)
Base64Loop(st, elems) ==
    IF elems = <<>> THEN st
    ELSE LET elem == Head(elems)
         IN  IF LocalName(elem.tag) = s_EmbeddedData /\ elem.text # <<>>
             THEN LET data_clean == SelectSeq(Strip(elem.text), LAMBDA c : c \notin Whitespace)
                      st1 == IF ~Base64Valid(data_clean)
                             THEN AddError(st, "Invalid base64 in EmbeddedData", <<>>)
                             ELSE st
                      st2 == IF Len(data_clean) > 10 * 1024 * 1024
                             THEN AddWarning(st1, "Large base64 data may cause issues", <<>>)
                             ELSE st1
                  IN  Base64Loop(st2, Tail(elems))
             ELSE Base64Loop(st, Tail(elems))

_check_base64_data(st, root) == Base64Loop(st, Iter(root))

\* controls: the codes of the characters of the text that INVALID_CHAR_PATTERN matches
_check_invalid_characters(st, controls) ==
    LET st1 == IF controls # <<>>
               THEN AddError(st, "XML contains invalid control characters", Take(controls, 5))
               ELSE st
    IN  IF \E i \in DOMAIN controls : controls[i] = 0
        THEN AddError(st1, "XML contains null bytes", <<>>)
        ELSE st1

RECURSIVE CountryLoop(_, _)
CountryLoop(st, elems) ==
    IF elems = <<>> THEN st
    ELSE LET elem == Head(elems)
             code == Strip(elem.text)
         IN  IF LocalName(elem.tag) = s_CountryCode /\ elem.text # <<>>
             THEN LET st1 == IF code # Lower(code)
                             THEN AddError(st, "CountryCode must be lowercase", code) ELSE st
                      st2 == IF Len(code) # 2
                             THEN AddWarning(st1, "CountryCode should be 2-letter ISO code", code)
                             ELSE st1
                  IN  CountryLoop(st2, Tail(elems))
             ELSE CountryLoop(st, Tail(elems))

_check_country_codes(st, root) == CountryLoop(st, Iter(root))

RECURSIVE LanguageLoop(_, _)
LanguageLoop(st, elems) ==
    IF elems = <<>> THEN st
    ELSE LET elem == Head(elems)
             code == Strip(elem.text)
         IN  IF LocalName(elem.tag) \in {s_PrimaryLanguageCode, s_CompetencyID} /\ elem.text # <<>>
                /\ ~(2 <= Len(code) /\ Len(code) <= 3)
             THEN LanguageLoop(AddWarning(st, "Language code should be 2-3 letter ISO code", code),
                               Tail(elems))
             ELSE LanguageLoop(st, Tail(elems))

_check_language_codes(st, root) == LanguageLoop(st, Iter(root))

ValidationResult(is_valid, errors, warnings) ==
    [is_valid |-> is_valid, errors |-> errors, warnings |-> warnings]

\* the checks of validate, in their order (_check_html_descriptions does nothing)
RunChecks(xml_content) ==
    LET root == xml_content.root
        st0  == [errors |-> <<>>, warnings |-> <<>>]
        st1  == _check_namespaces(st0, root)
        st2  == _check_root_element(st1, root)
        st3  == _check_candidate_structure(st2, root)
        st4  == _check_person_elements(st3, root)
        st5  == _check_content_encoding(st4, xml_content.prolog)
        st6  == _check_base64_data(st5, root)
        st7  == _check_invalid_characters(st6, xml_content.controls)
        st8  == _check_country_codes(st7, root)
    IN  _check_language_codes(st8, root)

\* is_valid of a result that counts the warnings too
validate_WarningsCount(xml_content) ==
    IF ~xml_content.wellFormed
    THEN ValidationResult(FALSE, << Msg("XML parse error", <<>>) >>, <<>>)
    ELSE LET st == RunChecks(xml_content)
         IN  ValidationResult(Len(st.errors) = 0 /\ Len(st.warnings) = 0, st.errors, st.warnings)

\* EuropassValidator.validate
validate(xml_content) ==
    IF ~xml_content.wellFormed
    THEN ValidationResult(FALSE, << Msg("XML parse error", <<>>) >>, <<>>)
    ELSE LET st == RunChecks(xml_content)
         IN  ValidationResult(Len(st.errors) = 0, st.errors, st.warnings)

MaxChildren == 4

s_PrologUtf8 ==
    s_XmlDecl \o << " " >> \o s_EncodingDouble \o << "?", ">" >>

XmlLeaf(tag, text) == XmlElement(tag, text, <<>>)

ChildInputs ==
    { XmlLeaf(QName(s_NsHr, s_DocumentID), << "1" >>),
      XmlLeaf(QName(s_NsEuropass, s_CandidateSupplier), <<>>),
      XmlElement(QName(s_NsEuropass, s_CandidatePerson), <<>>,
                 << XmlLeaf(QName(s_NsEuropass, s_PersonName), <<>>) >>),
      XmlElement(QName(s_NsEuropass, s_CandidatePerson), <<>>,
                 << XmlLeaf(QName(s_NsEuropass, s_PersonName), <<>>),
                    XmlLeaf(QName(s_NsHr, s_PersonTitle), << "D", "r" >>) >>),
      XmlElement(QName(s_NsEuropass, s_CandidateProfile), <<>>,
                 << XmlLeaf(QName(s_NsEuropass, s_CountryCode), << "f", "r" >>),
                    XmlLeaf(QName(s_NsEuropass, s_CompetencyID), << "f", "r", "e" >>) >>),
      XmlElement(QName(s_NsEuropass, s_CandidateProfile), <<>>,
                 << XmlLeaf(QName(s_NsEuropass, s_CountryCode), << "F", "R", "A" >>),
                    XmlLeaf(QName(s_NsEuropass, s_EmbeddedData), << "Q", "U", "\n", "J" >>) >>) }

RootTagInputs ==
    { QName(s_NsEuropass, s_Candidate), s_Candidate, QName(s_NsEuropass, s_Resume) }

PrologInputs == { <<>>, s_PrologUtf8 }

\* texts ET.fromstring rejects: a control character, an unclosed element
RejectedDocuments ==
    { [wellFormed |-> FALSE, prolog |-> s_PrologUtf8, controls |-> << 1 >>,
       root |-> XmlLeaf(<<>>, <<>>)],
      [wellFormed |-> FALSE, prolog |-> <<>>, controls |-> <<>>, root |-> XmlLeaf(<<>>, <<>>)] }

DocumentInputs ==
    { [wellFormed |-> TRUE, prolog |-> prolog, controls |-> <<>>,
       root |-> XmlElement(tag, <<>>, kids)] :
          prolog \in PrologInputs, tag \in RootTagInputs, kids \in BSeq(ChildInputs, MaxChildren) }
    \cup RejectedDocuments

InitValidate ==
    /\ InitIdle
    /\ fn_pc = "input"
    /\ fn_in \in DocumentInputs
    /\ fn_arg = 0
    /\ fn_out = <<>>
    /\ fn_out2 = <<>>

Validate ==
    /\ fn_pc = "input"
    /\ fn_out' = validate(fn_in)
    /\ fn_pc' = "done"
    /\ UNCHANGED << fn_in, fn_arg, fn_out2 >>
    /\ UNCHANGED store_vars
    /\ UNCHANGED rt_vars

NextValidate == Validate

SpecValidate == InitValidate /\ [][NextValidate]_vars

(***************************************************************************)
(* The code tables on their own, and the export of a record that holds the *)
(* same country, dialing code and language                                 *)
(***************************************************************************)
CountryInputs ==
    { << "F", "r", "a", "n", "c", "e" >>, << " ", "S", "p", "a", "i", "n", " " >>,
      << "A", "t", "l", "a", "n", "t", "i", "s" >>, << "F", "R" >>, << "z", "z" >>, <<>>,
      << "U", "S", "A" >> }

DialingInputs == { << "3", "3" >>, << "+", "3", "3" >>, << "9", "9", "9" >>, <<>> }

LanguageInputs ==
    { << "F", "r", "e", "n", "c", "h" >>, << "K", "l", "i", "n", "g", "o", "n" >>,
      << "d", "e" >>, << "t", "l" >>, << "C", "&", "C" >> }

\* a record with one address, one phone number and one language
CodesMac(in) ==
    [aboutMe |-> [profile |-> [name |-> s_Ada, surnames |-> s_Lovelace,
                               location |-> [country |-> in.country]]],
     careerPreferences |-> [contact |-> [phoneNumbers |->
                               << [countryCode |-> in.dialing, number |-> << "6", "1" >>] >>]],
     knowledge |-> [languages |-> << [name |-> in.language, level |-> <<>>] >>]]

InitCodes ==
    /\ InitIdle
    /\ fn_pc = "input"
    /\ fn_in \in [country : CountryInputs, dialing : DialingInputs, language : LanguageInputs]
    /\ fn_arg = 0
    /\ fn_out = <<>>
    /\ fn_out2 = <<>>

LookUpCodes ==
    /\ fn_pc = "input"
    /\ fn_out' = [country  |-> _country_to_code(fn_in.country),
                  dialing  |-> _phone_country_to_iso(fn_in.dialing),
                  language |-> _language_to_iso639b(fn_in.language)]
    /\ fn_out2' = _mac_to_europass_xml(CodesMac(fn_in))
    /\ fn_pc' = "done"
    /\ UNCHANGED << fn_in, fn_arg >>
    /\ UNCHANGED store_vars
    /\ UNCHANGED rt_vars

NextCodes == LookUpCodes

SpecCodes == InitCodes /\ [][NextCodes]_vars

(***************************************************************************)
(* _download_pdf_with_retry: the coroutine, one action per await           *)
(***************************************************************************)

\* the largest max_retries a call is given; the default of the code is 5
MaxRetries == 5

\* timeout = 60000 in generate_pdf, the only caller
DownloadTimeout == 60000

retry_intervals == << 200, 300, 500, 1000, 2000 >>

\* retry_intervals[min(attempt - 1, len(retry_intervals) - 1)], with Python's 0-based index
RetryInterval(attempt) == retry_intervals[Min(attempt - 1, Len(retry_intervals) - 1) + 1]

\* attempt_timeout = 5000 if attempt < max_retries else timeout * 2
AttemptTimeout(attempt, max_retries, timeout) ==
    IF attempt < max_retries THEN 5000 ELSE timeout * 2

\* output_path.exists() and output_path.stat().st_size > 0
Downloaded_ExistsOnly(file) == file # "absent"

Downloaded(file) == file = "full"

\* for attempt in range(1, max_retries + 1): the step to the next iteration, and the
\* return False behind the loop
NextAttempt(attempt, history, file, clicks) ==
    IF attempt + 1 <= fn_in.max_retries
    THEN /\ fn_pc' = "wait_for"
         /\ fn_arg' = [attempt |-> attempt + 1, attempt_timeout |-> 0, interval |-> 0]
         /\ fn_out' = [returned |-> "none", file |-> file, clicks |-> clicks]
         /\ fn_out2' = history
    ELSE /\ fn_pc' = "done"
         /\ fn_arg' = [attempt |-> attempt, attempt_timeout |-> fn_arg.attempt_timeout,
                       interval |-> 0]
         /\ fn_out' = [returned |-> "False", file |-> file, clicks |-> clicks]
         /\ fn_out2' = history

\* except PlaywrightTimeout / except Exception: sleep when attempt < max_retries
Failed(kind, attempt_timeout, clicks) ==
    LET attempt == fn_arg.attempt
        history == Append(fn_out2, kind)
    IN  IF attempt < fn_in.max_retries
        THEN /\ fn_pc' = "sleep"
             /\ fn_arg' = [attempt |-> attempt, attempt_timeout |-> attempt_timeout,
                           interval |-> RetryInterval(attempt)]
             /\ fn_out' = [fn_out EXCEPT !.clicks = clicks]
             /\ fn_out2' = history
        ELSE /\ fn_pc' = "done"
             /\ fn_arg' = [attempt |-> attempt, attempt_timeout |-> attempt_timeout,
                           interval |-> 0]
             /\ fn_out' = [returned |-> "False", file |-> fn_out.file, clicks |-> clicks]
             /\ fn_out2' = history

InitDownload ==
    /\ InitIdle
    /\ fn_pc = "angular"
    /\ fn_in \in [max_retries : 0..MaxRetries, timeout : {DownloadTimeout}]
    /\ fn_arg = [attempt |-> 0, attempt_timeout |-> 0, interval |-> 0]
    /\ fn_out \in [returned : {"none"}, file : {"absent", "full"}, clicks : {0}]
    /\ fn_out2 = <<>>

\* await _wait_for_angular_stable(page, timeout=5000): it returns True or False and
\* raises nothing; the result is not used
WaitForAngularStable ==
    /\ fn_pc = "angular"
    /\ NextAttempt(0, <<>>, fn_out.file, 0)
    /\ UNCHANGED fn_in
    /\ UNCHANGED store_vars
    /\ UNCHANGED rt_vars

\* await download_btn.wait_for(state="visible", timeout=timeout)
WaitForVisible ==
    /\ fn_pc = "wait_for"
    /\ \E r \in {"ok", "timeout", "exception"} :
          IF r = "ok"
          THEN /\ fn_pc' = "expect_download"
               /\ fn_arg' = [fn_arg EXCEPT !.attempt_timeout =
                                AttemptTimeout(fn_arg.attempt, fn_in.max_retries, fn_in.timeout)]
               /\ UNCHANGED << fn_out, fn_out2 >>
          ELSE Failed(r, 0, fn_out.clicks)
    /\ UNCHANGED fn_in
    /\ UNCHANGED store_vars
    /\ UNCHANGED rt_vars

\* async with page.expect_download(timeout=attempt_timeout): await download_btn.click()
\* and download = await download_info.value
ExpectDownload ==
    /\ fn_pc = "expect_download"
    /\ \E r \in {"ok", "timeout", "exception"} :
          IF r = "ok"
          THEN /\ fn_pc' = "save_as"
               /\ fn_out' = [fn_out EXCEPT !.clicks = @ + 1]
               /\ UNCHANGED << fn_arg, fn_out2 >>
          ELSE Failed(r, fn_arg.attempt_timeout, fn_out.clicks + 1)
    /\ UNCHANGED fn_in
    /\ UNCHANGED store_vars
    /\ UNCHANGED rt_vars

\* await download.save_as(output_path), then the test of the saved file
SaveAs ==
    /\ fn_pc = "save_as"
    /\ \E r \in {"full", "empty", "exception"} :
          IF r = "exception"
          THEN Failed(r, fn_arg.attempt_timeout, fn_out.clicks)
          ELSE IF Downloaded(r)
          THEN /\ fn_pc' = "done"
               /\ fn_out' = [returned |-> "True", file |-> r, clicks |-> fn_out.clicks]
               /\ fn_out2' = Append(fn_out2, "saved")
               /\ UNCHANGED fn_arg
          ELSE NextAttempt(fn_arg.attempt, Append(fn_out2, "empty"), r, fn_out.clicks)
    /\ UNCHANGED fn_in
    /\ UNCHANGED store_vars
    /\ UNCHANGED rt_vars

\* await asyncio.sleep(interval / 1000)
Sleep ==
    /\ fn_pc = "sleep"
    /\ NextAttempt(fn_arg.attempt, fn_out2, fn_out.file, fn_out.clicks)
    /\ UNCHANGED fn_in
    /\ UNCHANGED store_vars
    /\ UNCHANGED rt_vars

NextDownload ==
    \/ WaitForAngularStable
    \/ WaitForVisible
    \/ ExpectDownload
    \/ SaveAs
    \/ Sleep

SpecDownload == InitDownload /\ [][NextDownload]_vars

\* every await of the coroutine comes back, with a value or with an exception: each one
\* carries a timeout, and the event loop resumes a coroutine whose await is over
SpecDownloadFair == SpecDownload /\ WF_vars(NextDownload)

(***************************************************************************)
(* generate_pdf as a coroutine: overlapping calls that share xml_path,     *)
(* one action per stretch of code between two awaits                       *)
(***************************************************************************)

\* generate_pdf calls in flight at the same time
MaxOverlap == 2

\* records in the store of a run of SpecPdf
MaxPdfResumes == 2

PdfCalls == 1..MaxOverlap

PdfMacs == { DefaultMac, MkMac(s_Grace, s_Hopper) }

\* the result of call p, and the steps of the other calls
PdfReturn(p, status, xml_cleaned_up) ==
    [fn_out EXCEPT ![p] = [status |-> status, xml_cleaned_up |-> xml_cleaned_up]]

PdfUnchanged ==
    /\ UNCHANGED << _resumes, _raw_europass_xml, nextId, last, calls, fn_arg >>
    /\ UNCHANGED rt_vars

InitPdf ==
    /\ InitIdle
    /\ fn_pc = [p \in PdfCalls |-> "idle"]
    /\ fn_in = [p \in PdfCalls |-> <<>>]
    /\ fn_arg = 0
    /\ fn_out = [p \in PdfCalls |-> <<>>]
    /\ fn_out2 = [p \in PdfCalls |-> <<>>]

\* create_resume, called before or between the generate_pdf calls
GP_Create ==
    /\ Len(_resumes) < MaxPdfResumes
    /\ \E m \in PdfMacs : create_resume(m)
    /\ UNCHANGED calls
    /\ UNCHANGED rt_vars
    /\ UNCHANGED fn_vars

\* the code before the first await: the resume is looked up, converted and written to
\* xml_path.  resume_id 0 is None; template is a valid one.
GP_Write(p) ==
    /\ fn_pc[p] = "idle"
    /\ \E resume_id \in 0..MaxPdfResumes :
          IF (resume_id # 0 /\ resume_id \notin ResidentIds) \/ (resume_id = 0 /\ _resumes = <<>>)
          THEN /\ fn_pc' = [fn_pc EXCEPT ![p] = "done"]
               /\ fn_out' = PdfReturn(p, "error", FALSE)
               /\ UNCHANGED << xml_file, fn_in, fn_out2 >>
          ELSE LET id == IF resume_id # 0 THEN resume_id ELSE _resumes[Len(_resumes)].id
                   europass_xml == EuropassXmlFor(id)
               IN  /\ xml_file' = << europass_xml >>
                   /\ fn_in' = [fn_in EXCEPT ![p] = << europass_xml >>]
                   /\ fn_pc' = [fn_pc EXCEPT ![p] = "launch"]
                   /\ UNCHANGED << fn_out, fn_out2 >>
    /\ PdfUnchanged

\* async_playwright, launch, new_context, new_page, goto, _wait_for_network_idle,
\* _handle_resume_dialog: they succeed or one of them raises
GP_Launch(p) ==
    /\ fn_pc[p] = "launch"
    /\ \E ok \in BOOLEAN : fn_pc' = [fn_pc EXCEPT ![p] = IF ok THEN "upload" ELSE "failed"]
    /\ UNCHANGED << xml_file, fn_in, fn_out, fn_out2 >>
    /\ PdfUnchanged

\* _upload_xml_file: set_input_files reads the file that is at xml_path now, and raises
\* when there is none; the waits around it may time out
GP_Upload(p) ==
    /\ fn_pc[p] = "upload"
    /\ \E ok \in BOOLEAN :
          IF ok /\ xml_file # <<>>
          THEN /\ fn_out2' = [fn_out2 EXCEPT ![p] = xml_file]
               /\ fn_pc' = [fn_pc EXCEPT ![p] = "download"]
          ELSE /\ fn_pc' = [fn_pc EXCEPT ![p] = "failed"]
               /\ UNCHANGED fn_out2
    /\ UNCHANGED << xml_file, fn_in, fn_out >>
    /\ PdfUnchanged

\* steps 4 to 7 (builder, template, name, _download_pdf_with_retry) and the return of
\* the success result, which names xml_path
GP_Download(p) ==
    /\ fn_pc[p] = "download"
    /\ \E ok \in BOOLEAN :
          IF ok
          THEN /\ fn_pc' = [fn_pc EXCEPT ![p] = "done"]
               /\ fn_out' = PdfReturn(p, "success", FALSE)
          ELSE /\ fn_pc' = [fn_pc EXCEPT ![p] = "failed"]
               /\ UNCHANGED fn_out
    /\ UNCHANGED << xml_file, fn_in, fn_out2 >>
    /\ PdfUnchanged

\* except Exception: xml_existed = xml_path.exists(); if xml_existed: xml_path.unlink()
GP_Cleanup(p) ==
    /\ fn_pc[p] = "failed"
    /\ xml_file' = <<>>
    /\ fn_pc' = [fn_pc EXCEPT ![p] = "done"]
    /\ fn_out' = PdfReturn(p, "error", xml_file # <<>>)
    /\ UNCHANGED << fn_in, fn_out2 >>
    /\ PdfUnchanged

NextPdf ==
    \/ GP_Create
    \/ \E p \in PdfCalls : GP_Write(p)
    \/ \E p \in PdfCalls : GP_Launch(p)
    \/ \E p \in PdfCalls : GP_Upload(p)
    \/ \E p \in PdfCalls : GP_Download(p)
    \/ \E p \in PdfCalls : GP_Cleanup(p)

SpecPdf == InitPdf /\ [][NextPdf]_vars

(***************************************************************************)
(* Properties of the store                                                 *)
(***************************************************************************)

\* C1 as stated: after any sequence of create_resume, import_cv, update_resume and
\* delete_resume calls the store never holds more than _MAX_RESUMES records.
\* import_cv appends without evicting, so a run of SpecLRU breaks it.
C1_StoreNeverExceedsMax == Len(_resumes) <= _MAX_RESUMES

\* C2: in runs from the empty store whose records all come from create_resume (SpecCreate),
\* after n successful creates the store holds min(n, _MAX_RESUMES) records, and they are
\* the min(n, _MAX_RESUMES) records created last, in the order of their creation: a create
\* at capacity evicts one record, the one inserted earliest, and neither update_resume nor
\* a read by generate_pdf or list_resumes changes the order.  nextId - 1 is n here.
C2_OldestFirstEviction ==
    LET n    == nextId - 1
        size == IF n <= _MAX_RESUMES THEN n ELSE _MAX_RESUMES
    IN  /\ Len(_resumes) = size
        /\ \A i \in DOMAIN _resumes : _resumes[i].id = n - size + i

\* C2, its case: creates beyond the capacity have evicted, and the oldest resident was
\* updated or read just before or after
C2_Witness ==
    /\ nextId - 1 > _MAX_RESUMES
    /\ Len(_resumes) = _MAX_RESUMES
    /\ _resumes[1].id = nextId - _MAX_RESUMES
    /\ calls = MaxSpecial

\* C3: the document generate_pdf writes, and uploads when the browser part succeeds, is the
\* stored imported document unchanged when the id has an entry in _raw_europass_xml, and
\* _mac_to_europass_xml of the record only when it has none.
C3_RawXmlIsExportedUnchanged ==
    (last.op = "generate_pdf" /\ last.written # <<>>) =>
        /\ last.resume_id \in ResidentIds
        /\ IF last.resume_id \in DOMAIN _raw_europass_xml
           THEN /\ last.written = << _raw_europass_xml[last.resume_id] >>
                /\ last.source_type = "imported"
           ELSE /\ last.written = << _mac_to_europass_xml(MacOf(_resumes, last.resume_id)) >>
                /\ last.source_type = "converted"
        /\ (last.status = "success" => xml_file = last.written)

\* C3, its case: an imported record was updated with use_mac_conversion=False, and
\* generate_pdf wrote the imported document, which is not what the record converts to
C3_Witness ==
    /\ last.op = "generate_pdf"
    /\ last.status = "success"
    /\ last.resume_id \in DOMAIN _raw_europass_xml
    /\ xml_file = << _raw_europass_xml[last.resume_id] >>
    /\ xml_file # << _mac_to_europass_xml(MacOf(_resumes, last.resume_id)) >>
    /\ ProfileOf(MacOf(_resumes, last.resume_id)).surnames = s_Hopper

\* C4: a successful update_resume with use_mac_conversion=True leaves the id without an
\* entry in _raw_europass_xml, and no later operation gives an id issued before an entry
\* again or changes an entry, so every later generate_pdf for the id writes the converted
\* record; with use_mac_conversion=False the update leaves _raw_europass_xml exactly as it
\* was, so generate_pdf keeps writing the imported document whatever the update changed.
\* Ids are never issued twice in the model (str(uuid4())[:8] is taken to be fresh).
C4_UpdateClearsOrKeepsRawXml ==
    [][ /\ (last'.op = "update_resume" /\ last'.status = "success"
            /\ last'.source_type = "mac") =>
                last'.resume_id \notin DOMAIN _raw_europass_xml'
        /\ (last'.op = "update_resume" /\ last'.source_type # "mac") =>
                _raw_europass_xml' = _raw_europass_xml
        /\ \A id \in 1..(nextId - 1) :
                /\ id \notin DOMAIN _raw_europass_xml => id \notin DOMAIN _raw_europass_xml'
                /\ id \in DOMAIN _raw_europass_xml' =>
                        _raw_europass_xml'[id] = _raw_europass_xml[id]
        /\ (last'.op = "generate_pdf" /\ last'.written # <<>>) =>
                last'.written =
                    IF last'.resume_id \in DOMAIN _raw_europass_xml
                    THEN << _raw_europass_xml[last'.resume_id] >>
                    ELSE << _mac_to_europass_xml(MacOf(_resumes', last'.resume_id)) >>
      ]_vars

\* C4, its case: a record imported from a document was updated with
\* use_mac_conversion=True, and the next generate_pdf wrote the converted record
C4_Witness ==
    /\ last.op = "generate_pdf"
    /\ last.source_type = "converted"
    /\ last.written = << _mac_to_europass_xml(MacOf(_resumes, last.resume_id)) >>
    /\ "_imported_from" \in DOMAIN MacOf(_resumes, last.resume_id)
    /\ "settings" \in DOMAIN MacOf(_resumes, last.resume_id)
    /\ ProfileOf(MacOf(_resumes, last.resume_id)).surnames = s_Hopper

C6_CreateValidatesNames ==
    [][ last'.op = "create_resume" =>
            LET profile == Get(Get(last'.arg, "aboutMe", EmptyDict), "profile", EmptyDict)
                Blank(field) ==
                    \/ field \notin DOMAIN profile
                    \/ \A i \in DOMAIN profile[field] : profile[field][i] \in Whitespace
            IN  IF Blank("name") \/ Blank("surnames")
                THEN /\ last'.status = "error"
                     /\ _resumes' = _resumes
                     /\ _raw_europass_xml' = _raw_europass_xml
                ELSE /\ last'.status = "success"
                     /\ last'.resume_id \notin 1..(nextId - 1)
                     /\ _resumes' # <<>>
                     /\ _resumes'[Len(_resumes')] = [id |-> last'.resume_id, mac |-> last'.arg]
                     /\ \A i \in DOMAIN _resumes : _resumes[i].id # last'.resume_id
      ]_vars

\* C6, its case: a create_resume without a usable name was rejected at capacity, after
\* creates that evicted, and the store still holds _MAX_RESUMES records
C6_Witness ==
    /\ last.op = "create_resume"
    /\ last.status = "error"
    /\ Len(_resumes) = _MAX_RESUMES
    /\ nextId - 1 > _MAX_RESUMES

\* C7 as stated: every resident record has a non-empty given name and a non-empty family
\* name.  import_cv stores what the document holds, and update_resume replaces the stored
\* profile by the one it is given, with or without the names.
C7_ResidentsHaveNames ==
    \A i \in DOMAIN _resumes :
        LET profile == ProfileOf(_resumes[i].mac)
        IN  /\ Strip(Get(profile, "name", <<>>)) # <<>>
            /\ Strip(Get(profile, "surnames", <<>>)) # <<>>

(***************************************************************************)
(* Properties of the translation                                           *)
(***************************************************************************)

\* C8 as stated: for R = _europass_xml_to_mac(X) and R2 = _europass_xml_to_mac(
\* _mac_to_europass_xml(R)), R2 has as many jobs and as many studies as R, for every X,
\* employers with no or with several PositionHistory entries included.  The export writes
\* one EmployerHistory per role, so it is the number of roles that comes back as jobs.
C8_RoundTripKeepsCounts ==
    (rt_pc = "reimported" /\ rt_src = "import") =>
        LET JobsOf(mac)    == Get(Get(mac, "experience", EmptyDict), "jobs", <<>>)
            StudiesOf(mac) == Get(Get(mac, "knowledge", EmptyDict), "studies", <<>>)
        IN  /\ Len(JobsOf(rt_mac2)) = Len(JobsOf(rt_mac))
            /\ Len(StudiesOf(rt_mac2)) = Len(StudiesOf(rt_mac))

\* C9 as stated: for R produced by the importer and R2 the import of its export, every
\* language of R with a cefrScores map comes back with the same dimension keys and
\* scores, and R2 has a profilePicture exactly when R has one, with the same payload.
\* The export always writes all five dimensions, and it encodes a payload that starts
\* like raw JPEG or PNG base64.
C9_RoundTripKeepsScoresAndPhoto ==
    (rt_pc = "reimported" /\ rt_src = "import") =>
        LET LanguagesOf(mac) == Get(Get(mac, "knowledge", EmptyDict), "languages", <<>>)
            langs  == LanguagesOf(rt_mac)
            langs2 == LanguagesOf(rt_mac2)
        IN  /\ \A i \in DOMAIN langs :
                  "cefrScores" \in DOMAIN langs[i] =>
                      \E j \in DOMAIN langs2 :
                          /\ langs2[j].name = _language_to_iso639b(Lower(langs[i].name))
                          /\ "cefrScores" \in DOMAIN langs2[j]
                          /\ langs2[j].cefrScores = langs[i].cefrScores
            /\ "profilePicture" \in DOMAIN rt_mac2 <=> "profilePicture" \in DOMAIN rt_mac
            /\ "profilePicture" \in DOMAIN rt_mac =>
                      Get(rt_mac2, "profilePicture", <<>>) = rt_mac.profilePicture

\* the roles of a record in the order the export visits them
RECURSIVE AllRoles(_)
AllRoles(jobs) ==
    IF jobs = <<>> THEN <<>> ELSE Get(Head(jobs), "roles", <<>>) \o AllRoles(Tail(jobs))

\* C10 as stated: the EmploymentPeriod of an exported role has an EndDate exactly when the
\* role has a finish date, and CurrentIndicator is "true" exactly when it has none.  A
\* finish date _validate_date does not recognise is dropped, and the role is exported as
\* a current one.
C10_EndDateIffFinishDate ==
    rt_pc = "exported" =>
        LET roles == AllRoles(Get(Get(rt_mac, "experience", EmptyDict), "jobs", <<>>))
        IN  /\ Len(rt_out.employment) = Len(roles)
            /\ \A i \in DOMAIN roles :
                  LET period == rt_out.employment[i].positions[1]
                      has_finish == Get(roles[i], "finishDate", <<>>) # <<>>
                  IN  /\ period.hasEnd <=> has_finish
                      /\ (period.current = s_true) <=> ~has_finish
                      /\ ~has_finish => period.end = <<>>

\* C10 amended: every role is exported, in order, as one EmploymentPeriod; it contains an
\* EndDate exactly when _validate_date gives the role's finish date a normal form (the
\* finish date is, once stripped, YYYY-MM, YYYY-MM-DD, YYYY/MM, MM/YYYY or YYYY), and the
\* EndDate is that form, YYYY-MM; CurrentIndicator is "true" exactly when there is no
\* EndDate, "false" otherwise; a role with no finish date gets no EndDate, whatever its
\* start date.
C10_EndDateIffFinishDateNormalizes ==
    rt_pc = "exported" =>
        LET roles == AllRoles(Get(Get(rt_mac, "experience", EmptyDict), "jobs", <<>>))
        IN  /\ Len(rt_out.employment) = Len(roles)
            /\ \A i \in DOMAIN roles :
                  LET period == rt_out.employment[i].positions[1]
                      finish == Strip(Get(roles[i], "finishDate", <<>>))
                      normal == \/ IsYearSepMonth(finish, "-") \/ IsYearMonthDay(finish)
                                \/ IsYearSepMonth(finish, "/") \/ IsMonthSlashYear(finish)
                                \/ IsYear(finish)
                  IN  /\ Len(rt_out.employment[i].positions) = 1
                      /\ period.hasEnd <=> normal
                      /\ period.hasEnd => /\ period.end = _validate_date(finish)
                                          /\ IsYearSepMonth(period.end, "-")
                      /\ ~period.hasEnd => period.end = <<>>
                      /\ period.current = (IF period.hasEnd THEN s_false ELSE s_true)

\* C10, its case: an exported record with a role whose finish date is not recognised
\* (no EndDate, current), one without a finish date and one with a finish date
C10_Witness ==
    /\ rt_pc = "exported"
    /\ LET roles == AllRoles(Get(Get(rt_mac, "experience", EmptyDict), "jobs", <<>>))
       IN  /\ \E i \in DOMAIN roles :
                 /\ Get(roles[i], "finishDate", <<>>) # <<>>
                 /\ ~rt_out.employment[i].positions[1].hasEnd
                 /\ rt_out.employment[i].positions[1].current = s_true
           /\ \E i \in DOMAIN roles :
                 \/ "finishDate" \notin DOMAIN roles[i]
                 \/ rt_out.employment[i].positions[1].hasEnd

\* C11 as stated: for every record with a photo payload P, base64 of the image bytes, the
\* EmbeddedData E that _mac_to_europass_xml writes is base64 of "data:<mime>;base64," + P
\* for the image's mime type (decoding E once gives that data URI), whatever the image
\* type.  The export wraps and encodes only a payload that starts like a JPEG or a PNG.
C11_PhotoIsDoubleEncoded ==
    (rt_pc = "exported" /\ rt_src = "author" /\ "profilePicture" \in DOMAIN rt_mac) =>
        /\ Len(rt_out.attachments) = 1
        /\ \E img_type \in { <<"j","p","e","g">>, <<"p","n","g">>, <<"g","i","f">>,
                             <<"w","e","b","p">> } :
              rt_out.attachments[1].data =
                  B64Encode(<<"d","a","t","a",":","i","m","a","g","e","/">> \o img_type
                            \o <<";","b","a","s","e","6","4",",">> \o rt_mac.profilePicture)


\* C12 as stated: _validate_date returns "" or a string of shape YYYY-MM; YYYY-MM comes back
\* unchanged, YYYY-MM-DD gives its first seven characters, YYYY/MM and MM/YYYY give the
\* input's year and month as YYYY-MM, YYYY gives YYYY-01, every other input gives "", and
\* a non-empty result is a fixed point. The shapes are read on the argument as it is
\* passed.
C12_ValidateDateShapes ==
    fn_pc = "done" =>
        /\ fn_out = <<>> \/ IsYearSepMonth(fn_out, "-")
        /\ IsYearSepMonth(fn_in, "-") => fn_out = fn_in
        /\ IsYearMonthDay(fn_in) => fn_out = Take(fn_in, 7)
        /\ IsYearSepMonth(fn_in, "/") => fn_out = SubSeq(fn_in, 1, 4) \o <<"-">> \o SubSeq(fn_in, 6, 7)
        /\ IsMonthSlashYear(fn_in) => fn_out = SubSeq(fn_in, 4, 7) \o <<"-">> \o SubSeq(fn_in, 1, 2)
        /\ IsYear(fn_in) => fn_out = fn_in \o <<"-", "0", "1">>
        /\ ( ~ IsYearSepMonth(fn_in, "-") /\ ~ IsYearMonthDay(fn_in) /\ ~ IsYearSepMonth(fn_in, "/")
             /\ ~ IsMonthSlashYear(fn_in) /\ ~ IsYear(fn_in) ) => fn_out = <<>>
        /\ fn_out # <<>> => fn_out2 = fn_out

\* C12, amended: the same, with the shapes read on the argument once the whitespace around
\* it is stripped: a padded date is normalized like the date itself, and only an argument
\* that has none of the five shapes after stripping gives "".
C12_ValidateDateShapesAfterStrip ==
    fn_pc = "done" =>
        LET s == Strip(fn_in)
        IN  /\ fn_out = <<>> \/ IsYearSepMonth(fn_out, "-")
            /\ IsYearSepMonth(s, "-") => fn_out = s
            /\ IsYearMonthDay(s) => fn_out = Take(s, 7)
            /\ IsYearSepMonth(s, "/") => fn_out = SubSeq(s, 1, 4) \o <<"-">> \o SubSeq(s, 6, 7)
            /\ IsMonthSlashYear(s) => fn_out = SubSeq(s, 4, 7) \o <<"-">> \o SubSeq(s, 1, 2)
            /\ IsYear(s) => fn_out = s \o <<"-", "0", "1">>
            /\ ( ~ IsYearSepMonth(s, "-") /\ ~ IsYearMonthDay(s) /\ ~ IsYearSepMonth(s, "/")
                 /\ ~ IsMonthSlashYear(s) /\ ~ IsYear(s) ) => fn_out = <<>>
            /\ fn_out # <<>> => fn_out2 = fn_out

\* a padded MM/YYYY date has been normalized to its year and month
C12_Witness ==
    /\ fn_pc = "done"
    /\ fn_in = <<" ", "0", "3", "/", "2", "0", "2", "4", "\n">>
    /\ fn_out = <<"2", "0", "2", "4", "-", "0", "3">>
    /\ fn_out2 = fn_out


\* C13 as stated: an imported study is a certification exactly when its credential name
\* contains "certif" or "safe" (any case) or its start and finish dates have the same
\* non-empty normal form; every other study is an officialDegree.
C13_CertificationIffNameOrSameMonth ==
    (rt_pc = "imported" /\ rt_src = "import") =>
        LET studies == Get(Get(rt_mac, "knowledge", EmptyDict), "studies", <<>>)
        IN  \A i \in DOMAIN studies :
                LET study  == studies[i]
                    start  == _validate_date(study.startDate)
                    finish == _validate_date(Get(study, "finishDate", <<>>))
                    named  == \/ Contains(Lower(study.name), s_certif)
                              \/ Contains(Lower(study.name), s_safe)
                IN  /\ study.studyType \in {"certification", "officialDegree"}
                    /\ study.studyType = "certification" <=>
                           (named \/ (start = finish /\ start # <<>>))


\* C14 as stated: the oa:Description of every exported role is its fullDescription when
\* that is non-empty, else its notes when non-empty, else the list built from its
\* challenges, else empty; and when the role has such a rich-text blob, no text of its
\* challenges occurs in the exported description.
C14_BlobWinsAndNoChallengeText ==
    rt_pc = "exported" =>
        LET roles == AllRoles(Get(Get(rt_mac, "experience", EmptyDict), "jobs", <<>>))
        IN  \A i \in DOMAIN roles :
                LET exported   == rt_out.employment[i].positions[1].description
                    full       == Get(roles[i], "fullDescription", <<>>)
                    notes      == Get(roles[i], "notes", <<>>)
                    challenges == Get(roles[i], "challenges", <<>>)
                    blob       == IF full # <<>> THEN full ELSE notes
                IN  /\ blob # <<>> => exported = blob
                    /\ blob = <<>> => exported = _build_html_description(challenges)
                    /\ (blob = <<>> /\ challenges = <<>>) => exported = <<>>
                    /\ blob # <<>> =>
                           \A k \in DOMAIN challenges :
                               LET text == Strip(StripTags(Get(challenges[k], "description", <<>>)))
                               IN  text # <<>> => ~Contains(exported, text)

\* C14, amended: the same priority, and when the role has a rich-text blob the exported
\* description is that blob and nothing else: the list of the challenges is not built and
\* nothing is added to the blob.  The blob may itself contain the text of a challenge, as
\* it does in every imported role, whose notes and single challenge are the same text.
C14_BlobWinsAndListIsNotMerged ==
    rt_pc = "exported" =>
        LET roles == AllRoles(Get(Get(rt_mac, "experience", EmptyDict), "jobs", <<>>))
        IN  \A i \in DOMAIN roles :
                LET exported   == rt_out.employment[i].positions[1].description
                    full       == Get(roles[i], "fullDescription", <<>>)
                    notes      == Get(roles[i], "notes", <<>>)
                    challenges == Get(roles[i], "challenges", <<>>)
                    blob       == IF full # <<>> THEN full ELSE notes
                IN  /\ blob # <<>> => exported = blob
                    /\ blob = <<>> => exported = _build_html_description(challenges)
                    /\ (blob = <<>> /\ challenges = <<>>) => exported = <<>>

\* C14, its case: an exported role that has a fullDescription and a challenge, and whose
\* description is the fullDescription, without the text of the challenge
C14_Witness ==
    /\ rt_pc = "exported"
    /\ rt_src = "author"
    /\ LET roles == AllRoles(Get(Get(rt_mac, "experience", EmptyDict), "jobs", <<>>))
       IN  \E i \in DOMAIN roles :
               /\ Get(roles[i], "fullDescription", <<>>) = s_LedTeamHtml
               /\ Get(roles[i], "challenges", <<>>) = << [description |-> s_ShortBullet] >>
               /\ rt_out.employment[i].positions[1].description = s_LedTeamHtml
               /\ ~Contains(rt_out.employment[i].positions[1].description, s_ShortBullet)


\* the li elements of a tree
RECURSIVE CountItems(_)
CountItems(kids) ==
    IF kids = <<>> THEN 0
    ELSE (IF Head(kids).tag = "li" THEN 1 ELSE 0)
         + CountItems(Head(kids).kids) + CountItems(Tail(kids))

\* the headings of a tree that phase 1 replaces by a bullet, from child i on
RECURSIVE CountPromoted(_, _)
CountPromoted(kids, i) ==
    IF i > Len(kids) THEN 0
    ELSE (IF HeadingWithText(kids[i])
          THEN (IF FollowedByList(kids, i) THEN 1 ELSE 0)
          ELSE CountPromoted(kids[i].kids, 1))
         + CountPromoted(kids, i + 1)

\* the <li ...> tags of a text
ItemTags(html) == SelectSeq(html, LAMBDA tok : tok.k = "open" /\ tok.name = "li")

\* the depth an item tag carries: N of its class ql-indent-N, 0 without a class
DepthOfTag(tok) == IF tok.hasClass THEN IndentOfClass(tok.class) ELSE 0

\* C15: for every input and every max_indent m >= 0, every list item in the result of
\* transform_for_europass carries no class or a class ql-indent-N with 1 <= N <= m, and
\* the result has as many list items as the input has, plus one for every heading that
\* was made a bullet.
C15_DepthCappedAndItemsKept ==
    fn_pc = "done" =>
        /\ \A i \in DOMAIN ItemTags(fn_out) :
               LET tok == ItemTags(fn_out)[i]
               IN  tok.hasClass =>
                       \E N \in 1..fn_arg : tok.class = s_ql_indent \o IntToStr(N)
        /\ Len(ItemTags(fn_out)) =
               CountItems(LexborHTMLParser(fn_in)) + CountPromoted(LexborHTMLParser(fn_in), 1)


\* C16: in the string phase every item is emitted with the depth min(d + h, max_indent),
\* where d is the depth of its ql-indent class after phase 1 (0 without one) and h is 1
\* when phase 1 gave it the class heading-child, 0 otherwise; and neither heading-child
\* nor heading-parent occurs in the result.
C16_DepthIsClassPlusHeadingCapped ==
    (fn_pc = "done" /\ ~IsBlank(fn_in)) =>
        LET before == SelectSeq(Phase1Html(fn_in), MatchesLi)
            after  == ItemTags(fn_out)
            Class(tok) == IF tok.hasClass THEN tok.class ELSE <<>>
        IN  /\ Len(after) = Len(before)
            /\ \A n \in DOMAIN before :
                   LET d == IndentOfClass(Class(before[n]))
                       h == IF Contains(Class(before[n]), s_heading_child) THEN 1 ELSE 0
                   IN  DepthOfTag(after[n]) = Min(d + h, fn_arg)
            /\ \A i \in DOMAIN fn_out :
                   /\ ~Contains(fn_out[i].class, s_heading_child)
                   /\ ~Contains(fn_out[i].class, s_heading_parent)
                   /\ ~Contains(fn_out[i].text, s_heading_child)
                   /\ ~Contains(fn_out[i].text, s_heading_parent)

\* C17: normalization is idempotent: transform_for_europass applied to its own result
\* gives that result again.
C17_NormalizationIsIdempotent ==
    fn_pc = "done" => fn_out2 = fn_out

\* the number of bullet lists that are open at place j of the tokens
ListDepth(tokens, j) ==
    Cardinality({ k \in 1..(j - 1) : tokens[k].type = "bullet_list_open" })
    - Cardinality({ k \in 1..(j - 1) : tokens[k].type = "bullet_list_close" })

\* the place where the outermost list around place j opens
OutermostList(tokens, j) ==
    CHOOSE k \in 1..(j - 1) :
        /\ tokens[k].type = "bullet_list_open"
        /\ ListDepth(tokens, k) = 0
        /\ \A l \in (k + 1)..(j - 1) :
               ~(tokens[l].type = "bullet_list_open" /\ ListDepth(tokens, l) = 0)

\* the list that opens at place k comes immediately after a heading
FollowsHeading(tokens, k) == k > 1 /\ tokens[k - 1].type = "heading_close"

\* going back from place k inside a list item: TRUE when the item's opening comes
\* before any of the item's own paragraphs (nested lists are stepped over)
RECURSIVE NoParagraphBefore(_, _, _)
NoParagraphBefore(tokens, k, nested) ==
    IF k = 0 THEN TRUE
    ELSE IF nested > 0
    THEN NoParagraphBefore(tokens, k - 1,
             IF tokens[k].type = "bullet_list_close" THEN nested + 1
             ELSE IF tokens[k].type = "bullet_list_open" THEN nested - 1
             ELSE nested)
    ELSE IF tokens[k].type = "list_item_open" THEN TRUE
    ELSE IF tokens[k].type = "paragraph_close" THEN FALSE
    ELSE NoParagraphBefore(tokens, k - 1,
                           IF tokens[k].type = "bullet_list_close" THEN 1 ELSE 0)

\* the lines the headings, the list items and the paragraphs outside lists are to
\* give: "- **text**" for a heading; for the text of an item (its first paragraph) at
\* nesting depth d of its list, 2*d + shift blanks, "- " and the text
RECURSIVE DescribedLines(_, _)
DescribedLines(tokens, j) ==
    IF j > Len(tokens) THEN <<>>
    ELSE IF tokens[j].type = "heading_open"
    THEN << << "-", " ", "*", "*" >> \o tokens[j + 1].content \o << "*", "*" >> >>
         \o DescribedLines(tokens, j + 3)
    ELSE IF tokens[j].type = "paragraph_open" /\ ListDepth(tokens, j) = 0
    THEN << tokens[j + 1].content >> \o DescribedLines(tokens, j + 3)
    ELSE IF tokens[j].type = "paragraph_open" /\ NoParagraphBefore(tokens, j - 1, 0)
    THEN LET d     == ListDepth(tokens, j) - 1
             shift == IF FollowsHeading(tokens, OutermostList(tokens, j)) THEN 2 ELSE 0
         IN  << Spaces(2 * d + shift) \o << "-", " " >> \o tokens[j + 1].content >>
             \o DescribedLines(tokens, j + 3)
    ELSE DescribedLines(tokens, j + 1)

\* the lines of a text, each with the number of times it occurs
LinesBag(text) ==
    LET lines == SplitLines(text, <<>>)
    IN  [ l \in { lines[i] : i \in DOMAIN lines } |->
              Cardinality({ i \in DOMAIN lines : lines[i] = l }) ]

\* C18: every heading becomes a line "- **text**" at depth 0; a bullet list is shifted
\* by one depth level exactly when it immediately follows a heading; and an item at
\* nesting depth d of its list is emitted as 2*d + shift blanks, "- " and its text,
\* where shift is 2 for a shifted list and 0 otherwise.
C18_HeadingsAndItemsAsDescribed ==
    fn_pc = "done" =>
        LinesBag(fn_out) = LinesBag(JoinLines(DescribedLines(MdParse(fn_in), 1)))

\* max_indent when the caller gives none
DefaultMaxIndent == 1

\* the depth of an emitted item line: half the blanks before its "- "
ItemDepth(line) == LeadingSpaces(line) \div 2

\* the emitted lines that are items
ItemLinesOf(text) ==
    SelectSeq(SplitLines(text, <<>>),
              LAMBDA l : LeadingMarkers(SubSeq(l, LeadingSpaces(l) + 1, Len(l))) > 0)

\* C19: the markdown normalizer caps the depth as the HTML normalizer does: every item
\* emitted by transform_headings_to_bullets has depth at most the configured maximum.
C19_MarkdownDepthCapped ==
    fn_pc = "done" =>
        \A i \in DOMAIN ItemLinesOf(fn_out) : ItemDepth(ItemLinesOf(fn_out)[i]) <= DefaultMaxIndent

\* a line without the blanks before it
Unindented(line) == SubSeq(line, LeadingSpaces(line) + 1, Len(line))

\* the lines of a text without their indentation
UnindentedLines(text) ==
    LET lines == SplitLines(text, <<>>)
    IN  [ i \in DOMAIN lines |-> Unindented(lines[i]) ]

\* what is to be emitted for the tokens from place j on, indentation aside: a heading
\* as "- **text**", a paragraph outside the lists as it is, and every paragraph of every
\* list item as "- " and its text; inList keeps only the last kind
RECURSIVE ContentLines(_, _, _)
ContentLines(tokens, j, inList) ==
    IF j > Len(tokens) THEN <<>>
    ELSE IF tokens[j].type = "heading_open"
    THEN (IF inList THEN <<>>
          ELSE << << "-", " ", "*", "*" >> \o tokens[j + 1].content \o << "*", "*" >> >>)
         \o ContentLines(tokens, j + 3, inList)
    ELSE IF tokens[j].type = "paragraph_open"
    THEN (IF ListDepth(tokens, j) > 0 THEN << << "-", " " >> \o tokens[j + 1].content >>
          ELSE IF inList THEN <<>>
          ELSE << tokens[j + 1].content >>)
         \o ContentLines(tokens, j + 3, inList)
    ELSE ContentLines(tokens, j + 1, inList)

\* how many of the lines are the line l
Occurrences(lines, l) == Cardinality({ i \in DOMAIN lines : lines[i] = l })

\* C20: transform_headings_to_bullets loses no list content: the text of every list
\* item, at every nesting depth, is emitted exactly once, as an item line: none is
\* dropped and none is duplicated.
C20_NoListContentLost ==
    fn_pc = "done" =>
        LET tokens   == MdParse(fn_in)
            emitted  == UnindentedLines(fn_out)
            expected == UnindentedLines(JoinLines(ContentLines(tokens, 1, FALSE)))
            ofItems  == UnindentedLines(JoinLines(ContentLines(tokens, 1, TRUE)))
        IN  \A i \in DOMAIN ofItems :
                ofItems[i] # <<>> =>
                    Occurrences(emitted, ofItems[i]) = Occurrences(expected, ofItems[i])

\* C21: the result of validate is valid exactly when its list of errors is empty; what
\* the list of warnings holds does not change it.
C21_ValidIffNoErrors ==
    fn_pc = "done" => (fn_out.is_valid <=> fn_out.errors = <<>>)

\* a document with warnings and no error has been validated
C21_Witness ==
    fn_pc = "done" /\ fn_out.warnings # <<>> /\ fn_out.errors = <<>> /\ fn_out.is_valid

\* the four required elements are among the children of the root in their order:
\* DocumentID, CandidateSupplier, CandidatePerson, CandidateProfile
RequiredInOrder(root) ==
    LET tags == ChildTags(root)
    IN  \E i1, i2, i3, i4 \in DOMAIN tags :
            /\ i1 < i2 /\ i2 < i3 /\ i3 < i4
            /\ tags[i1] = s_DocumentID
            /\ tags[i2] = s_CandidateSupplier
            /\ tags[i3] = s_CandidatePerson
            /\ tags[i4] = s_CandidateProfile

\* C22: validate reports at least one error whenever the required top-level elements
\* are not all present, or are not in their order, among the children of the root.
C22_RequiredElementsInOrder ==
    (fn_pc = "done" /\ fn_in.wellFormed /\ ~RequiredInOrder(fn_in.root)) =>
        (fn_out.errors # <<>> /\ ~fn_out.is_valid)

\* C24: in each code table an input with no entry gives the empty string, and the export
\* of a record that holds such inputs gives a document.
C24_UnmappedGivesEmptyCode ==
    fn_pc = "done" =>
        /\ Strip(Lower(fn_in.country)) \notin DOMAIN CountryMapping => fn_out.country = <<>>
        /\ fn_in.dialing \notin DOMAIN DialingMapping => fn_out.dialing = <<>>
        /\ Strip(Lower(fn_in.language)) \notin DOMAIN LanguageMapping => fn_out.language = <<>>
        /\ fn_out2.wellFormed

C25_Attempts ==
    /\ Len(fn_out2) <= fn_in.max_retries
    /\ fn_out.clicks <= fn_in.max_retries
    /\ fn_out.returned # "none" <=> fn_pc = "done"
    /\ fn_out.returned = "True" =>
          /\ fn_out2 # <<>>
          /\ fn_out2[Len(fn_out2)] = "saved"
          /\ fn_out.file = "full"
          /\ \A i \in 1..(Len(fn_out2) - 1) : fn_out2[i] \in {"timeout", "exception", "empty"}
    /\ fn_out.returned = "False" =>
          /\ Len(fn_out2) = fn_in.max_retries
          /\ \A i \in 1..Len(fn_out2) : fn_out2[i] \in {"timeout", "exception", "empty"}

C26_Step ==
    LET call == last'
        given == call.resume_id
    IN  /\ (/\ calls' = calls + 1
            /\ call.op \in {"delete_resume", "update_resume", "generate_pdf"}
            /\ given \notin ResidentIds)
           => /\ call.status = "error"
              /\ UNCHANGED << _resumes, _raw_europass_xml >>
        /\ (/\ calls' = calls + 1
            /\ call.op = "delete_resume"
            /\ given \in ResidentIds)
           => /\ call.status = "success"
              /\ _resumes' = SelectSeq(_resumes, LAMBDA item : item.id # given)
              /\ DOMAIN _raw_europass_xml' = DOMAIN _raw_europass_xml \ {given}
              /\ \A id \in DOMAIN _raw_europass_xml' :
                     _raw_europass_xml'[id] = _raw_europass_xml[id]

C26_UnknownIdsAndDelete == [][C26_Step]_vars

C26_Witness ==
    /\ last.op = "delete_resume"
    /\ last.status = "success"
    /\ last.resume_id = 1
    /\ ResidentIds = {2}
    /\ DOMAIN _raw_europass_xml = {2}

\* C27 as stated: after any sequence of import_cv, create_resume, update_resume and
\* delete_resume calls every id with an entry in _raw_europass_xml has a record in
\* _resumes.  An import whose parse raises has already stored the document, so a run of
\* Spec breaks it.
C27_NoOrphanDocument == DOMAIN _raw_europass_xml \subseteq ResidentIds

\* C28 as stated: an import_cv call that returns status "error" adds no entry to the
\* record store and none to the raw-XML store.  A malformed Europass document imported with
\* parse_to_mac is stored before the parse raises, so a run of Spec breaks it.
C28_Step ==
    (/\ calls' = calls + 1
     /\ last'.op = "import_cv"
     /\ last'.status = "error")
    => UNCHANGED << _resumes, _raw_europass_xml >>

C28_FailedImportChangesNothing == [][C28_Step]_vars

\* C29 as stated: when two generate_pdf calls with the same xml_path overlap, each call
\* uploads the document it wrote itself, and the failure cleanup of one call never removes
\* the file while the other call has still to upload it or has named it in a successful
\* result.  The calls share one file and nothing orders them, so a run of SpecPdf breaks it.
C29_NoInterference ==
    \A p \in PdfCalls :
        /\ fn_out2[p] # <<>> => fn_out2[p] = fn_in[p]
        /\ fn_pc[p] \in {"launch", "upload"} => xml_file # <<>>
        /\ (fn_pc[p] = "done" /\ fn_out[p].status = "success") => xml_file # <<>>

\* C30 as stated: a study of a record that has no finish date comes back from the import of
\* the record's export as a study that still has no finish date and has the same
\* studyType.  The export writes the start date as EndDate when there is no finish date,
\* and the import reads equal start and end dates as a certification.
C30_OpenStudyStaysOpen ==
    rt_pc = "reimported" =>
        LET studies  == Get(Get(rt_mac, "knowledge", EmptyDict), "studies", <<>>)
            studies2 == Get(Get(rt_mac2, "knowledge", EmptyDict), "studies", <<>>)
        IN  /\ Len(studies2) = Len(studies)
            /\ \A i \in DOMAIN studies :
                  Get(studies[i], "finishDate", <<>>) = <<>> =>
                      /\ Get(studies2[i], "finishDate", <<>>) = <<>>
                      /\ studies2[i].studyType = studies[i].studyType

====
